---- MODULE Spec2Model ----
(***************************************************************************)
(* Coordination layer of the Pathway Email Bot service:                    *)
(*   - the Gmail watch lease (service/gmail_client.py, ensure_watch),      *)
(*   - the attempt claim and grading path (service/firestore_client.py,    *)
(*     service/main.py process_single_message),                            *)
(*   - the in-process rate limiters of service/main.py.                    *)
(* Lease times are whole seconds, rate-limiter times whole milliseconds.   *)
(* Python's None is the value None below.                                  *)
(***************************************************************************)
EXTENDS Integers, Sequences, FiniteSets, TLC

\* ------------------------------------------------------------------ bounds
MaxWorkers == 2      \* processes (warm instances) that call ensure_watch
MaxCalls == 2        \* ensure_watch calls started in one behaviour
MaxTicks == 2        \* clock advances in one behaviour
MaxFaults == 1       \* failed watch() calls and crashes in a self-healing run
Spread == 1          \* seconds tried on either side of a time boundary
MaxProcs == 2        \* instances that handle notifications or call the attempt API
MaxAttempts == 2     \* attempt documents of the student
MaxOps == 3          \* operations started on the attempt store in one behaviour
MaxThreads == 2      \* request threads of one process that call a rate limiter
MaxReqs == 6         \* rate-limited requests made in one behaviour
MaxCoolReqs == 3     \* requests made in one behaviour of the cooldown runs
MaxRlTicks == 2      \* advances of the monotonic clock in one behaviour

\* --------------------------------------------------------------- constants
None == -1                         \* Python None / a field that is not set
WATCH_RENEW_BUFFER == 86400        \* timedelta(hours=24)
WATCH_CLAIM_TIMEOUT == 60          \* timedelta(seconds=60)
WATCH_DURATION == 604800           \* timedelta(days=7)
TicksPerSec == 1000                \* resolution kept of time.monotonic()
EMAIL_COOLDOWN_SECS == 60          \* _EMAIL_COOLDOWN_SECS
IP_MAX_RPS == 5                    \* _IP_MAX_RPS
IP_WINDOW_SECS == 1                \* _IP_WINDOW_SECS = 1.0
FEEDBACK_COOLDOWN_SECS == 5        \* _FEEDBACK_COOLDOWN_SECS

Workers == 1..MaxWorkers

\* Clock advances while calls are in flight: one second, or the claim timeout.
ShortSteps == {1, WATCH_CLAIM_TIMEOUT}
\* Clock advance between invocations: the time after which a lease renewed
\* WATCH_DURATION ago has exactly WATCH_RENEW_BUFFER left.
LongStep == WATCH_DURATION - WATCH_RENEW_BUFFER

VARIABLES
  clock,             \* wall clock, datetime.now(timezone.utc)
  ticks,             \* number of clock advances so far
  calls,             \* number of ensure_watch calls started so far
  watch_doc,         \* the Firestore document system/watch_status
  watch_expires_at,  \* per process: the module-level cache _watch_expires_at
  pc,                \* per process: position inside ensure_watch
  now,               \* per process: the local `now` of the running call
  snap,              \* per process: the snapshot read by the open transaction
  result,            \* per process: how the latest finished call ended
  watch_log,         \* Gmail side: the `now` of every call that requested watch()
  faults,            \* failed watch() calls and crashes so far (self-healing runs)
  pure_data,         \* check_and_claim_watch applied alone: its `data` argument
  pure_now,          \* ... its `now` argument
  pure_out,          \* ... and what it returned ("unset" before the call)
  attempts,          \* users/{email}/attempts/{id}: status and score per id
  user_doc,          \* users/{email}: whether it exists, and activeAttemptId
  g_pc,              \* per instance: position inside the running operation
  g_op,              \* per instance: the operation that is running
  g_att,             \* per instance: the attempt id the operation works on
  g_snap,            \* per instance: what its last read of the store returned
  g_score,           \* per instance: the score the grader returned
  g_ret,             \* per instance: what claim_attempt_for_grading returned
  ops,               \* number of operations started so far
  wins,              \* per attempt: claim calls that returned True
  grader_calls,      \* per attempt: evaluate_and_respond calls made for it
  feedback_sent,     \* per attempt: feedback replies sent to the student
  redirects_sent,    \* 'start a scenario first' replies sent to the student
  marks,             \* per attempt: the scores written by update_attempt_graded
  g_msg,             \* per instance: the attempt the handled mail was written for
  abandoned,         \* attempts whose claim winner died before marking them graded
  ss_pc,             \* per instance: position inside start_scenario
  ss_resp,           \* per instance: status of the latest start_scenario response
  rl_clock,          \* time.monotonic() of the process, in milliseconds
  rl_ticks,          \* number of advances of rl_clock so far
  rl_reqs,           \* number of rate-limited requests made so far
  rate_lock,         \* _rate_lock (shared by both limiters): the thread holding it
  email_last_sent,   \* _email_last_sent: per email, None when the key is absent
  ip_request_log,    \* _ip_request_log: per ip, the deque (empty when absent)
  feedback_last_sent,\* _feedback_last_sent: per key, None when absent
  rl_pc,             \* per thread: position inside the rate-limit call
  rl_op,             \* per thread: "send" (_check_rate_limit) or "feedback"
  rl_key,            \* per thread: the email / feedback key of the call
  rl_ip,             \* per thread: the client_ip of the call
  rl_now,            \* per thread: the local `now` of the call
  rl_out,            \* per thread: how its latest call ended
  rl_seen,           \* per ip: the `now` of every call that took the lock, in order
  rl_allowed         \* the calls that were allowed: operation, key, `now`, thread

leaseVars == <<clock, ticks, calls, watch_doc, watch_expires_at, pc, now, snap,
               result, watch_log, faults>>

pureVars == <<pure_data, pure_now, pure_out>>

\* Everything that is not the lease: unchanged by the lease's steps.
gradeVars == <<attempts, user_doc, g_pc, g_op, g_att, g_snap, g_score, g_ret,
               ops, wins, grader_calls, feedback_sent, redirects_sent, marks,
               g_msg, abandoned>>

\* What the instances' steps leave alone unless said otherwise.
traceVars == <<redirects_sent, marks, g_msg, abandoned>>

startVars == <<ss_pc, ss_resp>>

limitVars == <<rl_clock, rl_ticks, rl_reqs, rate_lock, email_last_sent,
               ip_request_log, feedback_last_sent, rl_pc, rl_op, rl_key, rl_ip,
               rl_now, rl_out, rl_seen, rl_allowed>>

nonLeaseVars == <<pureVars, gradeVars, startVars, limitVars>>

vars == <<leaseVars, pureVars, gradeVars, limitVars, startVars, limitVars>>

\* ------------------------------------------------------------ lease record
\* A document that does not exist reads as {} (snapshot.to_dict() is skipped).
NoDoc == [exists |-> FALSE, status |-> "none", claimed_at |-> None,
          expires_at |-> None, completed_at |-> None]

\* Mutants of check_and_claim_watch: without the 'renewing' case; and with a
\* claim that is respected however old it is.
check_and_claim_watch_ignores_claim(data, t) ==
  ~(data.status = "completed" /\ data.expires_at # None
      /\ data.expires_at > t + WATCH_RENEW_BUFFER)

check_and_claim_watch_no_timeout(data, t) ==
  /\ ~(data.status = "completed" /\ data.expires_at # None
         /\ data.expires_at > t + WATCH_RENEW_BUFFER)
  /\ ~(data.status = "renewing" /\ data.claimed_at # None)

\* More mutants of check_and_claim_watch: the freshness test applied whatever
\* the status; the buffer boundary counted as fresh; the timeout boundary
\* counted as still respected.
check_and_claim_watch_any_status(data, t) ==
  /\ ~(data.expires_at # None /\ data.expires_at > t + WATCH_RENEW_BUFFER)
  /\ ~(data.status = "renewing" /\ data.claimed_at # None
         /\ (t - data.claimed_at) < WATCH_CLAIM_TIMEOUT)

check_and_claim_watch_inclusive_buffer(data, t) ==
  /\ ~(data.status = "completed" /\ data.expires_at # None
         /\ data.expires_at >= t + WATCH_RENEW_BUFFER)
  /\ ~(data.status = "renewing" /\ data.claimed_at # None
         /\ (t - data.claimed_at) < WATCH_CLAIM_TIMEOUT)

check_and_claim_watch_late_takeover(data, t) ==
  /\ ~(data.status = "completed" /\ data.expires_at # None
         /\ data.expires_at > t + WATCH_RENEW_BUFFER)
  /\ ~(data.status = "renewing" /\ data.claimed_at # None
         /\ (t - data.claimed_at) <= WATCH_CLAIM_TIMEOUT + 1)

\* Mutant of check_and_claim_watch: a 'completed' record without expires_at
\* counts as fresh, a 'renewing' one without claimed_at as claimed.
check_and_claim_watch_missing_is_fine(data, t) ==
  IF data.status = "completed"
       /\ (data.expires_at = None \/ data.expires_at > t + WATCH_RENEW_BUFFER)
    THEN FALSE
  ELSE IF data.status = "renewing"
       /\ (data.claimed_at = None \/ (t - data.claimed_at) < WATCH_CLAIM_TIMEOUT)
    THEN FALSE
  ELSE TRUE

\* check_and_claim_watch(data, now): True = claim the renewal, False = skip.
\* The tzinfo normalisation reads a naive timestamp as UTC and leaves the
\* instant unchanged, so timestamps are plain seconds here.
check_and_claim_watch(data, t) ==
  IF data.status = "completed" /\ data.expires_at # None
       /\ data.expires_at > t + WATCH_RENEW_BUFFER
    THEN FALSE
  ELSE IF data.status = "renewing" /\ data.claimed_at # None
       /\ (t - data.claimed_at) < WATCH_CLAIM_TIMEOUT
    THEN FALSE
  ELSE TRUE

\* Mutant of claim_write: the claim does not carry the old expires_at over.
claim_write_drops_expiry(data, t) ==
  [exists |-> TRUE, status |-> "renewing", claimed_at |-> t,
   expires_at |-> None, completed_at |-> None]

\* Mutant of claim_write: a claim found in the record keeps its claimed_at.
claim_write_keeps_claimed_at(data, t) ==
  [exists |-> TRUE, status |-> "renewing",
   claimed_at |-> IF data.claimed_at # None THEN data.claimed_at ELSE t,
   expires_at |-> data.expires_at, completed_at |-> None]

\* transaction.set(doc_ref, {...}) without merge: the document is replaced, so
\* completed_at is dropped; expires_at keeps the value that was read.
claim_write(data, t) ==
  [exists |-> TRUE, status |-> "renewing", claimed_at |-> t,
   expires_at |-> data.expires_at, completed_at |-> None]

\* Mutant of confirm_write: completed_at is not written.
confirm_write_without_completed_at(doc, t) ==
  [doc EXCEPT !.status = "completed", !.expires_at = t + WATCH_DURATION]

\* doc_ref.update({...}) of phase 3: the three fields are merged in, claimed_at
\* stays as it is in the stored document.
confirm_write(doc, t) ==
  [doc EXCEPT !.status = "completed", !.expires_at = t + WATCH_DURATION,
              !.completed_at = t]

\* Fast path test of ensure_watch (line 238).
cache_fresh(cache, t) == cache # None /\ cache > t + WATCH_RENEW_BUFFER

InFlight(w) == pc[w] \in {"txn_read", "txn_commit", "skip", "watch", "confirm"}

\* ------------------------------------------------------------------ Init
LeaseInit ==
  /\ clock = 0
  /\ ticks = 0
  /\ calls = 0
  /\ watch_doc = NoDoc
  /\ watch_expires_at = [w \in Workers |-> None]
  /\ pc = [w \in Workers |-> "idle"]
  /\ now = [w \in Workers |-> None]
  /\ snap = [w \in Workers |-> NoDoc]
  /\ result = [w \in Workers |-> "none"]
  /\ watch_log = {}
  /\ faults = 0

\* ---------------------------------------------------------------- actions
\* Mutant of EnsureWatchEntry: the cache is not consulted.
EnsureWatchEntry_no_fast_path(w) ==
  /\ pc[w] = "idle"
  /\ pc' = [pc EXCEPT ![w] = "txn_read"]
  /\ now' = [now EXCEPT ![w] = clock]
  /\ result' = [result EXCEPT ![w] = "running"]
  /\ UNCHANGED <<nonLeaseVars, clock, ticks, watch_doc, watch_expires_at, snap,
                 watch_log, faults>>

\* ensure_watch lines 234-239: capture now, take the fast path or go on.
EnsureWatchEntry(w) ==
  /\ pc[w] = "idle"
  /\ IF cache_fresh(watch_expires_at[w], clock)
       THEN /\ pc' = pc
            /\ now' = now
            /\ result' = [result EXCEPT ![w] = "fast"]
       ELSE /\ pc' = [pc EXCEPT ![w] = "txn_read"]
            /\ now' = [now EXCEPT ![w] = clock]
            /\ result' = [result EXCEPT ![w] = "running"]
  /\ UNCHANGED <<nonLeaseVars, clock, ticks, watch_doc, watch_expires_at, snap,
                 watch_log, faults>>

\* A call of ensure_watch starts.
Enter(w) ==
  /\ calls < MaxCalls
  /\ calls' = calls + 1
  /\ EnsureWatchEntry(w)

\* _try_claim_watch_renewal, the read inside the transaction.
TxnRead(w) ==
  /\ pc[w] = "txn_read"
  /\ snap' = [snap EXCEPT ![w] = watch_doc]
  /\ pc' = [pc EXCEPT ![w] = "txn_commit"]
  /\ UNCHANGED <<nonLeaseVars, clock, ticks, calls, watch_doc, watch_expires_at, now, result,
                 watch_log, faults>>

\* _try_claim_watch_renewal, decision and commit.  The store commits only if
\* the document is as it was read; otherwise @transactional runs the function
\* again from its read.
TxnCommit(w) ==
  /\ pc[w] = "txn_commit"
  /\ IF watch_doc # snap[w]
       THEN /\ pc' = [pc EXCEPT ![w] = "txn_read"]
            /\ UNCHANGED watch_doc
       ELSE IF check_and_claim_watch(snap[w], now[w])
         THEN /\ watch_doc' = claim_write(snap[w], now[w])
              /\ pc' = [pc EXCEPT ![w] = "watch"]
         ELSE /\ pc' = [pc EXCEPT ![w] = "skip"]
              /\ UNCHANGED watch_doc
  /\ snap' = [snap EXCEPT ![w] = NoDoc]
  /\ UNCHANGED <<nonLeaseVars, clock, ticks, calls, watch_expires_at, now, result, watch_log,
                 faults>>

\* Mutant of SkipRead: the cache is left alone.
SkipRead_keeps_cache(w) ==
  /\ pc[w] = "skip"
  /\ pc' = [pc EXCEPT ![w] = "idle"]
  /\ now' = [now EXCEPT ![w] = None]
  /\ result' = [result EXCEPT ![w] = "skipped"]
  /\ UNCHANGED <<nonLeaseVars, clock, ticks, calls, watch_doc, watch_expires_at,
                 snap, watch_log, faults>>

\* Not claimed (lines 249-258): doc_ref.get() outside the transaction, refresh
\* the cache from expires_at if the document has one, return.
SkipRead(w) ==
  /\ pc[w] = "skip"
  /\ watch_expires_at' =
       IF watch_doc.exists /\ watch_doc.expires_at # None
         THEN [watch_expires_at EXCEPT ![w] = watch_doc.expires_at]
         ELSE watch_expires_at
  /\ pc' = [pc EXCEPT ![w] = "idle"]
  /\ now' = [now EXCEPT ![w] = None]
  /\ result' = [result EXCEPT ![w] = "skipped"]
  /\ UNCHANGED <<nonLeaseVars, clock, ticks, calls, watch_doc, snap, watch_log, faults>>

\* Phase 2, watch() succeeds.
WatchOk(w) ==
  /\ pc[w] = "watch"
  /\ watch_log' = watch_log \cup {now[w]}
  /\ pc' = [pc EXCEPT ![w] = "confirm"]
  /\ UNCHANGED <<nonLeaseVars, clock, ticks, calls, watch_doc, watch_expires_at, now, snap,
                 result, faults>>

\* Mutant of WatchFailStep: the failure path releases the claim it holds.
WatchFailStep_releases(w) ==
  /\ pc[w] = "watch"
  /\ watch_log' = watch_log \cup {now[w]}
  /\ watch_doc' = [watch_doc EXCEPT !.status = "failed"]
  /\ pc' = [pc EXCEPT ![w] = "idle"]
  /\ now' = [now EXCEPT ![w] = None]
  /\ result' = [result EXCEPT ![w] = "failed"]
  /\ UNCHANGED <<nonLeaseVars, clock, ticks, calls, watch_expires_at, snap>>

\* Phase 2, watch() raises (lines 266-268): logged, ensure_watch returns.
WatchFailStep(w) ==
  /\ pc[w] = "watch"
  /\ watch_log' = watch_log \cup {now[w]}
  /\ pc' = [pc EXCEPT ![w] = "idle"]
  /\ now' = [now EXCEPT ![w] = None]
  /\ result' = [result EXCEPT ![w] = "failed"]
  /\ UNCHANGED <<nonLeaseVars, clock, ticks, calls, watch_doc, watch_expires_at, snap>>

WatchFail(w) == WatchFailStep(w) /\ UNCHANGED faults

\* Phase 3 (lines 270-280): write 'completed', set the cache, return.
Confirm_caches_finish_time(w) ==
  /\ pc[w] = "confirm"
  /\ watch_doc' = confirm_write(watch_doc, now[w])
  /\ watch_expires_at' = [watch_expires_at EXCEPT ![w] = clock + WATCH_DURATION]
  /\ pc' = [pc EXCEPT ![w] = "idle"]
  /\ now' = [now EXCEPT ![w] = None]
  /\ result' = [result EXCEPT ![w] = "renewed"]
  /\ UNCHANGED <<nonLeaseVars, clock, ticks, calls, snap, watch_log, faults>>

Confirm_stamps_finish_time(w) ==
  /\ pc[w] = "confirm"
  /\ watch_doc' = confirm_write(watch_doc, clock)
  /\ watch_expires_at' = [watch_expires_at EXCEPT ![w] = clock + WATCH_DURATION]
  /\ pc' = [pc EXCEPT ![w] = "idle"]
  /\ now' = [now EXCEPT ![w] = None]
  /\ result' = [result EXCEPT ![w] = "renewed"]
  /\ UNCHANGED <<nonLeaseVars, clock, ticks, calls, snap, watch_log, faults>>

Confirm(w) ==
  /\ pc[w] = "confirm"
  /\ watch_doc' = confirm_write(watch_doc, now[w])
  /\ watch_expires_at' = [watch_expires_at EXCEPT ![w] = now[w] + WATCH_DURATION]
  /\ pc' = [pc EXCEPT ![w] = "idle"]
  /\ now' = [now EXCEPT ![w] = None]
  /\ result' = [result EXCEPT ![w] = "renewed"]
  /\ UNCHANGED <<nonLeaseVars, clock, ticks, calls, snap, watch_log, faults>>

\* The instance dies (mid-call or idle) and a new one cold-starts in its place:
\* the call in flight, if any, is abandoned and the module-level cache is empty.
CrashStep(w) ==
  /\ InFlight(w) \/ watch_expires_at[w] # None
  /\ pc' = [pc EXCEPT ![w] = "idle"]
  /\ watch_expires_at' = [watch_expires_at EXCEPT ![w] = None]
  /\ snap' = [snap EXCEPT ![w] = NoDoc]
  /\ now' = [now EXCEPT ![w] = None]
  /\ result' = [result EXCEPT ![w] = IF InFlight(w) THEN "crashed" ELSE result[w]]
  /\ UNCHANGED <<nonLeaseVars, clock, ticks, calls, watch_doc, watch_log>>

Crash(w) == CrashStep(w) /\ UNCHANGED faults

\* The clock advances by d seconds.
Advance(d) ==
  /\ clock' = clock + d
  /\ UNCHANGED <<nonLeaseVars, calls, watch_doc, watch_expires_at, pc, now, snap, result,
                 watch_log, faults>>

\* Time passes while calls may be in flight.
Tick ==
  /\ ticks < MaxTicks
  /\ ticks' = ticks + 1
  /\ \E d \in ShortSteps : Advance(d)

\* Days pass between invocations: the platform ends an invocation long
\* before, so no call is in flight across such a gap.
Idle ==
  /\ ticks < MaxTicks
  /\ ticks' = ticks + 1
  /\ \A w \in Workers : ~InFlight(w)
  /\ Advance(LongStep)

LeaseNext ==
  \/ \E w \in Workers : Enter(w)
  \/ \E w \in Workers : TxnRead(w)
  \/ \E w \in Workers : TxnCommit(w)
  \/ \E w \in Workers : SkipRead(w)
  \/ \E w \in Workers : WatchOk(w)
  \/ \E w \in Workers : WatchFail(w)
  \/ \E w \in Workers : Confirm(w)
  \/ \E w \in Workers : Crash(w)
  \/ Tick
  \/ Idle

\* ------------------------------------------------------- attempt store
Procs == 1..MaxProcs
AttemptIds == 1..MaxAttempts
\* What the grader may return as total_score.
Scores == {7, 9}

NoAttempt == [status |-> "absent", score |-> None]
NoUser == [exists |-> FALSE, activeAttemptId |-> None]

\* No operation on the attempt store is running or has run.
GradeIdle ==
  /\ g_pc = [g \in Procs |-> "idle"]
  /\ g_op = [g \in Procs |-> "none"]
  /\ g_att = [g \in Procs |-> None]
  /\ g_snap = [g \in Procs |-> "none"]
  /\ g_score = [g \in Procs |-> None]
  /\ g_ret = [g \in Procs |-> "none"]
  /\ ops = 0
  /\ wins = [a \in AttemptIds |-> 0]
  /\ grader_calls = [a \in AttemptIds |-> 0]
  /\ feedback_sent = [a \in AttemptIds |-> 0]
  /\ redirects_sent = 0
  /\ marks = [a \in AttemptIds |-> <<>>]
  /\ g_msg = [g \in Procs |-> None]
  /\ abandoned = {}

GradeInit ==
  /\ attempts = [a \in AttemptIds |-> NoAttempt]
  /\ user_doc = NoUser
  /\ GradeIdle

\* An operation starts on instance g.
Begin(g, op, a, at) ==
  /\ g_pc[g] = "idle"
  /\ ops < MaxOps
  /\ ops' = ops + 1
  /\ g_op' = [g_op EXCEPT ![g] = op]
  /\ g_att' = [g_att EXCEPT ![g] = a]
  /\ g_pc' = [g_pc EXCEPT ![g] = at]
  /\ g_ret' = [g_ret EXCEPT ![g] = "none"]

\* The operation of instance g ends (returns, or its exception is caught).
\* process_single_message called from process_email returns into it.
Return(g) ==
  /\ g_pc' = [g_pc EXCEPT ![g] = IF g_op[g] = "email" THEN "pe_return" ELSE "idle"]
  /\ g_snap' = [g_snap EXCEPT ![g] = "none"]
  /\ g_score' = [g_score EXCEPT ![g] = None]

\* create_attempt, first write: a new attempt document, status 'pending'.
\* uuid4 gives an id no document has yet.
CreateAttemptDoc(g) ==
  \E a \in AttemptIds :
    /\ attempts[a].status = "absent"
    /\ \A b \in AttemptIds : b < a => attempts[b].status # "absent"
    /\ Begin(g, "create", a, "ca_user")
    /\ attempts' = [attempts EXCEPT ![a] = [status |-> "pending", score |-> None]]
    /\ UNCHANGED <<leaseVars, pureVars, startVars, limitVars, traceVars, user_doc, g_snap, g_score, wins,
                   grader_calls, feedback_sent>>

\* create_attempt, second write: the user's active attempt (set, merge=True).
CreateAttemptUser(g) ==
  /\ g_pc[g] = "ca_user"
  /\ user_doc' = [exists |-> TRUE, activeAttemptId |-> g_att[g]]
  /\ Return(g)
  /\ UNCHANGED <<leaseVars, pureVars, startVars, limitVars, traceVars, attempts, g_op, g_att, g_ret, ops, wins,
                 grader_calls, feedback_sent>>

\* claim_attempt_for_grading(email, attempt_id) is called.
ClaimBegin(g) ==
  /\ \E a \in AttemptIds : Begin(g, "claim", a, "cl_read")
  /\ UNCHANGED <<leaseVars, pureVars, startVars, limitVars, traceVars, attempts, user_doc, g_snap, g_score, wins,
                 grader_calls, feedback_sent>>

\* _txn: attempt_ref.get(transaction=transaction).
ClaimRead(g) ==
  /\ g_pc[g] = "cl_read"
  /\ g_snap' = [g_snap EXCEPT ![g] = attempts[g_att[g]].status]
  /\ g_pc' = [g_pc EXCEPT ![g] = "cl_commit"]
  /\ UNCHANGED <<leaseVars, pureVars, startVars, limitVars, traceVars, attempts, user_doc, g_op, g_att, g_score,
                 g_ret, ops, wins, grader_calls, feedback_sent>>

\* The claim made without a transaction: the decision rests on what was
\* read, whatever the document holds by now.
ClaimCommit_no_retry(g) ==
  /\ g_pc[g] = "cl_commit"
  /\ IF g_snap[g] = "pending"
       THEN /\ attempts' = [attempts EXCEPT ![g_att[g]].status = "grading"]
            /\ g_ret' = [g_ret EXCEPT ![g] = "True"]
            /\ wins' = [wins EXCEPT ![g_att[g]] = @ + 1]
            /\ Return(g)
       ELSE /\ g_ret' = [g_ret EXCEPT ![g] = "False"]
            /\ Return(g)
            /\ UNCHANGED <<attempts, wins>>
  /\ UNCHANGED <<leaseVars, pureVars, startVars, limitVars, traceVars, user_doc, g_op, g_att, ops, grader_calls,
                 feedback_sent>>

\* Mutant of ClaimCommit: an attempt that is missing is claimed as well.
ClaimCommit_claims_missing(g) ==
  /\ g_pc[g] = "cl_commit"
  /\ IF attempts[g_att[g]].status # g_snap[g]
       THEN /\ g_pc' = [g_pc EXCEPT ![g] = "cl_read"]
            /\ g_snap' = [g_snap EXCEPT ![g] = "none"]
            /\ UNCHANGED <<attempts, g_ret, g_score, wins>>
       ELSE IF g_snap[g] \in {"pending", "absent"}
         THEN /\ attempts' = [attempts EXCEPT ![g_att[g]].status = "grading"]
              /\ g_ret' = [g_ret EXCEPT ![g] = "True"]
              /\ wins' = [wins EXCEPT ![g_att[g]] = @ + 1]
              /\ Return(g)
         ELSE /\ g_ret' = [g_ret EXCEPT ![g] = "False"]
              /\ Return(g)
              /\ UNCHANGED <<attempts, wins>>
  /\ UNCHANGED <<leaseVars, pureVars, startVars, limitVars, traceVars, user_doc, g_op, g_att, ops,
                 grader_calls, feedback_sent>>

\* Mutant of ClaimCommit: a claim that is already held is handed out again.
ClaimCommit_reclaims_grading(g) ==
  /\ g_pc[g] = "cl_commit"
  /\ IF attempts[g_att[g]].status # g_snap[g]
       THEN /\ g_pc' = [g_pc EXCEPT ![g] = "cl_read"]
            /\ g_snap' = [g_snap EXCEPT ![g] = "none"]
            /\ UNCHANGED <<attempts, g_ret, g_score, wins>>
       ELSE IF g_snap[g] \in {"pending", "grading"}
         THEN /\ attempts' = [attempts EXCEPT ![g_att[g]].status = "grading"]
              /\ g_ret' = [g_ret EXCEPT ![g] = "True"]
              /\ wins' = [wins EXCEPT ![g_att[g]] = @ + 1]
              /\ Return(g)
         ELSE /\ g_ret' = [g_ret EXCEPT ![g] = "False"]
              /\ Return(g)
              /\ UNCHANGED <<attempts, wins>>
  /\ UNCHANGED <<leaseVars, pureVars, startVars, limitVars, traceVars, user_doc, g_op, g_att,
                 ops, grader_calls, feedback_sent>>

\* _txn: decision and commit.  The store commits only if the document is as
\* it was read; otherwise the function is run again from its read.
ClaimCommit(g) ==
  /\ g_pc[g] = "cl_commit"
  /\ IF attempts[g_att[g]].status # g_snap[g]
       THEN /\ g_pc' = [g_pc EXCEPT ![g] = "cl_read"]
            /\ g_snap' = [g_snap EXCEPT ![g] = "none"]
            /\ UNCHANGED <<attempts, g_ret, g_score, wins>>
       ELSE IF g_snap[g] = "pending"
         THEN /\ attempts' = [attempts EXCEPT ![g_att[g]].status = "grading"]
              /\ g_ret' = [g_ret EXCEPT ![g] = "True"]
              /\ wins' = [wins EXCEPT ![g_att[g]] = @ + 1]
              /\ Return(g)
         ELSE /\ g_ret' = [g_ret EXCEPT ![g] = "False"]
              /\ Return(g)
              /\ UNCHANGED <<attempts, wins>>
  /\ UNCHANGED <<leaseVars, pureVars, startVars, limitVars, traceVars, user_doc, g_op, g_att, ops, grader_calls,
                 feedback_sent>>

\* update_attempt_graded(email, attempt_id, score, ...) is called directly.
UpdateBegin(g) ==
  /\ \E a \in AttemptIds : Begin(g, "update", a, "ug_write")
  /\ \E s \in Scores : g_score' = [g_score EXCEPT ![g] = s]
  /\ UNCHANGED <<leaseVars, pureVars, startVars, limitVars, traceVars, attempts, user_doc, g_snap, wins,
                 grader_calls, feedback_sent>>

\* Mutant of UpdateWrite: an attempt that is already graded is refused.
UpdateWrite_refuses_graded(g) ==
  /\ g_pc[g] = "ug_write"
  /\ IF attempts[g_att[g]].status \in {"absent", "graded"}
       THEN /\ Return(g)
            /\ g_ret' = [g_ret EXCEPT ![g] = "raised"]
            /\ UNCHANGED <<attempts, marks>>
       ELSE /\ attempts' = [attempts EXCEPT ![g_att[g]] =
                              [status |-> "graded", score |-> g_score[g]]]
            /\ marks' = [marks EXCEPT ![g_att[g]] = Append(@, g_score[g])]
            /\ g_pc' = [g_pc EXCEPT ![g] = "ug_user"]
            /\ UNCHANGED <<g_snap, g_score, g_ret>>
  /\ UNCHANGED <<leaseVars, pureVars, startVars, limitVars, redirects_sent, g_msg, abandoned, user_doc,
                 g_op, g_att, ops, wins, grader_calls, feedback_sent>>

\* update_attempt_graded: attempt_ref.update({'status': 'graded', ...}); update
\* of a document that does not exist raises NotFound.
UpdateWrite(g) ==
  /\ g_pc[g] = "ug_write"
  /\ IF attempts[g_att[g]].status = "absent"
       THEN /\ Return(g)
            /\ g_ret' = [g_ret EXCEPT ![g] = "raised"]
            /\ UNCHANGED <<attempts, marks>>
       ELSE /\ attempts' = [attempts EXCEPT ![g_att[g]] =
                              [status |-> "graded", score |-> g_score[g]]]
            /\ marks' = [marks EXCEPT ![g_att[g]] = Append(@, g_score[g])]
            /\ g_pc' = [g_pc EXCEPT ![g] = "ug_user"]
            /\ UNCHANGED <<g_snap, g_score, g_ret>>
  /\ UNCHANGED <<leaseVars, pureVars, startVars, limitVars, redirects_sent, g_msg, abandoned, user_doc,
                 g_op, g_att, ops, wins, grader_calls, feedback_sent>>

\* update_attempt_graded: user_doc = user_ref.get().
UpdateReadUser(g) ==
  /\ g_pc[g] = "ug_user"
  /\ g_snap' = [g_snap EXCEPT ![g] =
                  IF user_doc.exists /\ user_doc.activeAttemptId = g_att[g]
                    THEN "active" ELSE "other"]
  /\ g_pc' = [g_pc EXCEPT ![g] = "ug_clear"]
  /\ UNCHANGED <<leaseVars, pureVars, startVars, limitVars, traceVars, attempts, user_doc, g_op, g_att, g_score,
                 g_ret, ops, wins, grader_calls, feedback_sent>>

\* update_attempt_graded: clear the active attempt if the read showed this one.
\* Called from process_single_message, the feedback reply follows.
UpdateClear(g) ==
  /\ g_pc[g] = "ug_clear"
  /\ user_doc' = IF g_snap[g] = "active"
                   THEN [user_doc EXCEPT !.activeAttemptId = None]
                   ELSE user_doc
  /\ IF g_op[g] \in {"message", "email"}
       THEN /\ g_pc' = [g_pc EXCEPT ![g] = "psm_reply"]
            /\ g_snap' = [g_snap EXCEPT ![g] = "none"]
            /\ UNCHANGED g_score
       ELSE Return(g)
  /\ UNCHANGED <<leaseVars, pureVars, startVars, limitVars, traceVars, attempts, g_op, g_att, g_ret, ops, wins,
                 grader_calls, feedback_sent>>

\* process_single_message is called with a mail of the student: one written
\* for an attempt that was started, or one that belongs to no scenario.
MessageBegin(g) ==
  /\ Begin(g, "message", None, "psm_active")
  /\ \E m \in {a \in AttemptIds : attempts[a].status # "absent"} \cup {None} :
       g_msg' = [g_msg EXCEPT ![g] = m]
  /\ UNCHANGED <<leaseVars, pureVars, startVars, limitVars, redirects_sent, marks, abandoned, attempts,
                 user_doc, g_snap, g_score, wins, grader_calls, feedback_sent>>

\* process_single_message, get_active_scenario: without an active attempt
\* the student gets the redirect message and nothing else happens.
MessageActive(g) ==
  /\ g_pc[g] = "psm_active"
  /\ IF user_doc.exists /\ user_doc.activeAttemptId # None
       THEN /\ g_att' = [g_att EXCEPT ![g] = user_doc.activeAttemptId]
            /\ g_pc' = [g_pc EXCEPT ![g] = "psm_check"]
            /\ UNCHANGED <<redirects_sent, g_snap, g_score>>
       ELSE /\ redirects_sent' = redirects_sent + 1
            /\ Return(g)
            /\ UNCHANGED g_att
  /\ UNCHANGED <<leaseVars, pureVars, startVars, limitVars, marks, g_msg, abandoned, attempts, user_doc,
                 g_op, g_ret, ops, wins, grader_calls, feedback_sent>>

\* process_single_message, idempotency guard: skip if already graded.
MessageCheck(g) ==
  /\ g_pc[g] = "psm_check"
  /\ IF attempts[g_att[g]].status = "graded"
       THEN Return(g)
       ELSE /\ g_pc' = [g_pc EXCEPT ![g] = "psm_grade"]
            /\ UNCHANGED <<g_snap, g_score>>
  /\ UNCHANGED <<leaseVars, pureVars, startVars, limitVars, traceVars, attempts, user_doc, g_op, g_att, g_ret,
                 ops, wins, grader_calls, feedback_sent>>

\* process_single_message: agent.evaluate_and_respond returns a grading.
MessageGradeOk(g) ==
  /\ g_pc[g] = "psm_grade"
  /\ grader_calls' = [grader_calls EXCEPT ![g_att[g]] = @ + 1]
  /\ \E s \in Scores : g_score' = [g_score EXCEPT ![g] = s]
  /\ g_pc' = [g_pc EXCEPT ![g] = "ug_write"]
  /\ UNCHANGED <<leaseVars, pureVars, startVars, limitVars, traceVars, attempts, user_doc, g_op, g_att, g_snap,
                 g_ret, ops, wins, feedback_sent>>

\* process_single_message: the grader raises; the exception is logged.
MessageGradeFail(g) ==
  /\ g_pc[g] = "psm_grade"
  /\ grader_calls' = [grader_calls EXCEPT ![g_att[g]] = @ + 1]
  /\ Return(g)
  /\ UNCHANGED <<leaseVars, pureVars, startVars, limitVars, traceVars, attempts, user_doc, g_op, g_att, g_ret,
                 ops, wins, feedback_sent>>

\* process_single_message: send_reply with the feedback.
MessageReply(g) ==
  /\ g_pc[g] = "psm_reply"
  /\ feedback_sent' = [feedback_sent EXCEPT ![g_att[g]] = @ + 1]
  /\ Return(g)
  /\ UNCHANGED <<leaseVars, pureVars, startVars, limitVars, traceVars, attempts, user_doc, g_op, g_att, g_ret,
                 ops, wins, grader_calls>>

\* ------------------------------------------------------- process_email
\* The places of process_email and of process_single_message below it at
\* which a call can raise.
FailSites == {"pe_decode", "pe_history", "pe_fetch", "psm_active", "psm_check",
              "psm_grade", "ug_write", "ug_user", "ug_clear", "psm_reply"}

\* Mutant of Handled: process_single_message has no try/except of its own.
Handled_fetch_only(site) == site \in {"pe_history", "pe_fetch"}

\* Which exceptions the handlers catch: `except Exception` of
\* process_single_message (line 328) around all of its body, `except
\* Exception` of process_email (line 186) around the history and message
\* fetches and the call of process_single_message.  The base64/utf-8
\* decoding of line 129 stands before the outer try.
Handled(site) == site # "pe_decode"

\* process_email is triggered with a notification.
EmailBegin(g) ==
  /\ Begin(g, "email", None, "pe_decode")
  /\ \E m \in {a \in AttemptIds : attempts[a].status # "absent"} \cup {None} :
       g_msg' = [g_msg EXCEPT ![g] = m]
  /\ UNCHANGED <<leaseVars, pureVars, startVars, limitVars, redirects_sent, marks, abandoned, attempts,
                 user_doc, g_snap, g_score, wins, grader_calls, feedback_sent>>

\* process_email, lines 126-144: the notification is decoded and parsed and
\* the Gmail service is built.  Invalid JSON (caught at line 188), a missing
\* historyId and a missing service end the call.
EmailDecode(g) ==
  /\ g_pc[g] = "pe_decode"
  /\ \E usable \in BOOLEAN :
       g_pc' = [g_pc EXCEPT ![g] = IF usable THEN "pe_history" ELSE "pe_return"]
  /\ UNCHANGED <<leaseVars, pureVars, startVars, limitVars, traceVars, attempts, user_doc, g_op, g_att,
                 g_snap, g_score, g_ret, ops, wins, grader_calls, feedback_sent>>

\* process_email, lines 146-183: the history is listed; without a message in
\* it (and none found by the fallback) the call ends.
EmailHistory(g) ==
  /\ g_pc[g] = "pe_history"
  /\ \E found \in BOOLEAN :
       g_pc' = [g_pc EXCEPT ![g] = IF found THEN "pe_fetch" ELSE "pe_return"]
  /\ UNCHANGED <<leaseVars, pureVars, startVars, limitVars, traceVars, attempts, user_doc, g_op, g_att,
                 g_snap, g_score, g_ret, ops, wins, grader_calls, feedback_sent>>

\* process_email: the message is fetched and process_single_message called.
EmailFetch(g) ==
  /\ g_pc[g] = "pe_fetch"
  /\ g_pc' = [g_pc EXCEPT ![g] = "psm_active"]
  /\ UNCHANGED <<leaseVars, pureVars, startVars, limitVars, traceVars, attempts, user_doc, g_op, g_att,
                 g_snap, g_score, g_ret, ops, wins, grader_calls, feedback_sent>>

\* process_email, line 194: return "OK".
EmailReturn(g) ==
  /\ g_pc[g] = "pe_return"
  /\ g_pc' = [g_pc EXCEPT ![g] = "idle"]
  /\ g_ret' = [g_ret EXCEPT ![g] = "OK"]
  /\ UNCHANGED <<leaseVars, pureVars, startVars, limitVars, traceVars, attempts, user_doc, g_op, g_att,
                 g_snap, g_score, ops, wins, grader_calls, feedback_sent>>

\* The call that instance g is about to make raises.  A caught exception is
\* logged and process_email runs on to its return "OK"; an exception that
\* nothing catches leaves process_email.  A grader that raises was called.
EmailFail(g) ==
  /\ g_op[g] = "email"
  /\ g_pc[g] \in FailSites
  /\ g_ret' = [g_ret EXCEPT ![g] = IF Handled(g_pc[g]) THEN "OK" ELSE "raised"]
  /\ grader_calls' = IF g_pc[g] = "psm_grade"
                       THEN [grader_calls EXCEPT ![g_att[g]] = @ + 1]
                       ELSE grader_calls
  /\ g_pc' = [g_pc EXCEPT ![g] = "idle"]
  /\ g_snap' = [g_snap EXCEPT ![g] = "none"]
  /\ g_score' = [g_score EXCEPT ![g] = None]
  /\ UNCHANGED <<leaseVars, pureVars, startVars, limitVars, traceVars, attempts, user_doc, g_op, g_att,
                 ops, wins, feedback_sent>>

\* Scenarios are started and notifications arrive; any call may fail.
EmailNext ==
  \/ \E g \in Procs : CreateAttemptDoc(g)
  \/ \E g \in Procs : CreateAttemptUser(g)
  \/ \E g \in Procs : EmailBegin(g)
  \/ \E g \in Procs : EmailDecode(g)
  \/ \E g \in Procs : EmailHistory(g)
  \/ \E g \in Procs : EmailFetch(g)
  \/ \E g \in Procs : MessageActive(g)
  \/ \E g \in Procs : MessageCheck(g)
  \/ \E g \in Procs : MessageGradeOk(g)
  \/ \E g \in Procs : UpdateWrite(g)
  \/ \E g \in Procs : UpdateReadUser(g)
  \/ \E g \in Procs : UpdateClear(g)
  \/ \E g \in Procs : MessageReply(g)
  \/ \E g \in Procs : EmailFail(g)
  \/ \E g \in Procs : EmailReturn(g)

\* The attempt API called by concurrent callers.
ClaimNext ==
  \/ \E g \in Procs : CreateAttemptDoc(g)
  \/ \E g \in Procs : CreateAttemptUser(g)
  \/ \E g \in Procs : ClaimBegin(g)
  \/ \E g \in Procs : ClaimRead(g)
  \/ \E g \in Procs : ClaimCommit(g)
  \/ \E g \in Procs : UpdateBegin(g)
  \/ \E g \in Procs : UpdateWrite(g)
  \/ \E g \in Procs : UpdateReadUser(g)
  \/ \E g \in Procs : UpdateClear(g)

\* The service: scenarios are started and notifications are handled.
GradeNext ==
  \/ \E g \in Procs : CreateAttemptDoc(g)
  \/ \E g \in Procs : CreateAttemptUser(g)
  \/ \E g \in Procs : MessageBegin(g)
  \/ \E g \in Procs : MessageActive(g)
  \/ \E g \in Procs : MessageCheck(g)
  \/ \E g \in Procs : MessageGradeOk(g)
  \/ \E g \in Procs : MessageGradeFail(g)
  \/ \E g \in Procs : UpdateWrite(g)
  \/ \E g \in Procs : UpdateReadUser(g)
  \/ \E g \in Procs : UpdateClear(g)
  \/ \E g \in Procs : MessageReply(g)

\* ------------------------------------------------- claim, then mark graded
\* The caller of claim_attempt_for_grading that got True goes on to
\* update_attempt_graded with the grader's result.
WinnerUpdate(g) ==
  /\ g_op[g] = "claim" /\ g_ret[g] = "True"
  /\ Begin(g, "update", g_att[g], "ug_write")
  /\ \E s \in Scores : g_score' = [g_score EXCEPT ![g] = s]
  /\ UNCHANGED <<leaseVars, pureVars, startVars, limitVars, traceVars, attempts, user_doc,
                 g_snap, wins, grader_calls, feedback_sent>>

\* The caller that got True dies before update_attempt_graded; its instance
\* starts afresh.
ClaimCrash(g) ==
  /\ g_op[g] = "claim" /\ g_ret[g] = "True" /\ g_pc[g] = "idle"
  /\ abandoned' = abandoned \cup {g_att[g]}
  /\ g_op' = [g_op EXCEPT ![g] = "none"]
  /\ g_ret' = [g_ret EXCEPT ![g] = "none"]
  /\ g_att' = [g_att EXCEPT ![g] = None]
  /\ UNCHANGED <<leaseVars, pureVars, startVars, limitVars, redirects_sent, marks, g_msg,
                 attempts, user_doc, g_pc, g_snap, g_score, ops, wins,
                 grader_calls, feedback_sent>>

\* Attempts are claimed, only a claim winner marks an attempt graded, winners
\* may die, and time passes.
StuckNext ==
  \/ \E g \in Procs : CreateAttemptDoc(g)
  \/ \E g \in Procs : CreateAttemptUser(g)
  \/ \E g \in Procs : ClaimBegin(g)
  \/ \E g \in Procs : ClaimRead(g)
  \/ \E g \in Procs : ClaimCommit(g)
  \/ \E g \in Procs : ClaimCrash(g)
  \/ \E g \in Procs : WinnerUpdate(g)
  \/ \E g \in Procs : UpdateWrite(g)
  \/ \E g \in Procs : UpdateReadUser(g)
  \/ \E g \in Procs : UpdateClear(g)
  \/ Tick

\* ------------------------------------------------------- the grading flow
\* Scenarios are started and the student's mails are handled; the grader,
\* the mailbox and the store answer, and every handler that has started
\* keeps running to its end.
FlowNext ==
  \/ \E g \in Procs : CreateAttemptDoc(g)
  \/ \E g \in Procs : CreateAttemptUser(g)
  \/ \E g \in Procs : MessageBegin(g)
  \/ \E g \in Procs : MessageActive(g)
  \/ \E g \in Procs : MessageCheck(g)
  \/ \E g \in Procs : MessageGradeOk(g)
  \/ \E g \in Procs : UpdateWrite(g)
  \/ \E g \in Procs : UpdateReadUser(g)
  \/ \E g \in Procs : UpdateClear(g)
  \/ \E g \in Procs : MessageReply(g)

FlowFairness ==
  \A g \in Procs :
    /\ WF_vars(MessageActive(g))
    /\ WF_vars(MessageCheck(g))
    /\ WF_vars(MessageGradeOk(g))
    /\ WF_vars(UpdateWrite(g))
    /\ WF_vars(UpdateReadUser(g))
    /\ WF_vars(UpdateClear(g))
    /\ WF_vars(MessageReply(g))

\* ------------------------------------------------------------ rate limiters
Threads == 1..MaxThreads
Emails == {"a@x", "b@x"}
Ips == {"10.0.0.1", "10.0.0.2"}

EmailCooldown == EMAIL_COOLDOWN_SECS * TicksPerSec
IpWindow == IP_WINDOW_SECS * TicksPerSec
FeedbackCooldown == FEEDBACK_COOLDOWN_SECS * TicksPerSec

\* The monotonic clock never reads 0.0 in a running process.
RlStart == TicksPerSec

\* Clock advances between requests of one client: inside the window, up to
\* its end, and the email cooldown.
WindowSteps == {1, IpWindow - 1, EmailCooldown}
\* Clock advances around the two cooldowns; the last is 61 s.
CoolSteps == {1, FeedbackCooldown - 1, EmailCooldown - 1, EmailCooldown + TicksPerSec}

LimitInit ==
  /\ rl_clock = RlStart
  /\ rl_ticks = 0
  /\ rl_reqs = 0
  /\ rate_lock = None
  /\ email_last_sent = [e \in Emails |-> None]
  /\ ip_request_log = [i \in Ips |-> <<>>]
  /\ feedback_last_sent = [k \in Emails |-> None]
  /\ rl_pc = [t \in Threads |-> "idle"]
  /\ rl_op = [t \in Threads |-> "none"]
  /\ rl_key = [t \in Threads |-> "none"]
  /\ rl_ip = [t \in Threads |-> "none"]
  /\ rl_now = [t \in Threads |-> 0]
  /\ rl_out = [t \in Threads |-> "none"]
  /\ rl_seen = [i \in Ips |-> <<>>]
  /\ rl_allowed = {}

\* Mutant of LockFree: the `with` block excludes nobody.
LockFree_unlocked == TRUE

\* `with _rate_lock:` can be entered.
LockFree == rate_lock = None

\* Mutant of ring_append: a plain list, nothing is evicted.
ring_append_unbounded(ring, t) == Append(ring, t)

\* deque(maxlen=_IP_MAX_RPS).append: at capacity the oldest entry is evicted.
ring_append(ring, t) ==
  IF Len(ring) >= IP_MAX_RPS THEN Append(Tail(ring), t) ELSE Append(ring, t)

\* `if last and ...`: None and 0.0 are both falsy.
Truthy(last) == last # None /\ last # 0

\* Mutant of cooling: a call exactly one cooldown after the last is rejected.
cooling_inclusive(last, t, cooldown) == Truthy(last) /\ t - last <= cooldown

\* `if last and (now - last) < cooldown`: the key is still cooling down.
cooling(last, t, cooldown) == Truthy(last) /\ t - last < cooldown

\* A call returns: a message when it is rejected, None when it is allowed.
\* Called from send_magic_link it returns into that handler.
Leave(t, out) ==
  /\ rl_pc' = [rl_pc EXCEPT ![t] = IF rl_op[t] = "magic"
                                     THEN (IF out = "ok" THEN "ml_link" ELSE "ml_429")
                                     ELSE "idle"]
  /\ rl_out' = [rl_out EXCEPT ![t] = out]
  /\ rl_allowed' = IF out = "ok"
                     THEN rl_allowed \cup {<<rl_op[t], rl_key[t], rl_now[t], t>>}
                     ELSE rl_allowed

\* The call goes on inside the lock, to the statement that records `now`.
Pass(t, at) ==
  /\ rl_pc' = [rl_pc EXCEPT ![t] = at]
  /\ rate_lock' = t
  /\ UNCHANGED <<rl_out, rl_allowed>>

\* _check_rate_limit(email, client_ip) is called with an email of es and an
\* ip of is: now = time.monotonic() is read before the lock is taken.
SendFrom(t, es, is) ==
  /\ rl_pc[t] = "idle"
  /\ \E e \in es : \E i \in is :
       /\ rl_key' = [rl_key EXCEPT ![t] = e]
       /\ rl_ip' = [rl_ip EXCEPT ![t] = i]
  /\ rl_op' = [rl_op EXCEPT ![t] = "send"]
  /\ rl_now' = [rl_now EXCEPT ![t] = rl_clock]
  /\ rl_pc' = [rl_pc EXCEPT ![t] = "rate_check"]
  /\ rl_out' = [rl_out EXCEPT ![t] = "none"]
  /\ rl_reqs' = rl_reqs + 1
  /\ UNCHANGED <<leaseVars, pureVars, gradeVars, startVars, rl_clock, rl_ticks,
                 rate_lock, email_last_sent, ip_request_log, feedback_last_sent,
                 rl_seen, rl_allowed>>

\* The thread that serves the requests of the sequential runs.
Main == CHOOSE t \in Threads : \A u \in Threads : t <= u

\* Requests of one student from either address, one after the other, in and
\* around one window.
WindowSend == rl_reqs < MaxReqs /\ SendFrom(Main, {"a@x"}, Ips)

\* Requests for either email from one address, one after the other, around
\* the email cooldown.
CoolSend == rl_reqs < MaxCoolReqs /\ SendFrom(Main, Emails, {"10.0.0.1"})

\* Requests for one email from one address, on any thread.
RaceSend(t) == rl_reqs < MaxCoolReqs /\ SendFrom(t, {"a@x"}, {"10.0.0.1"})

\* Mutant of RateCheck: a call rejected by the email cooldown restarts it.
RateCheck_restarts_cooldown(t) ==
  /\ rl_pc[t] = "rate_check"
  /\ LockFree
  /\ LET ring == ring_append(ip_request_log[rl_ip[t]], rl_now[t])
         last == email_last_sent[rl_key[t]]
     IN  /\ ip_request_log' = [ip_request_log EXCEPT ![rl_ip[t]] = ring]
         /\ rl_seen' = [rl_seen EXCEPT ![rl_ip[t]] = Append(@, rl_now[t])]
         /\ IF Len(ring) >= IP_MAX_RPS /\ rl_now[t] - ring[1] < IpWindow
              THEN Leave(t, "ip") /\ UNCHANGED <<rate_lock, email_last_sent>>
              ELSE IF cooling(last, rl_now[t], EmailCooldown)
                THEN /\ Leave(t, "email")
                     /\ email_last_sent' =
                          [email_last_sent EXCEPT ![rl_key[t]] = rl_now[t]]
                     /\ UNCHANGED rate_lock
                ELSE Pass(t, "rate_record") /\ UNCHANGED email_last_sent
  /\ UNCHANGED <<leaseVars, pureVars, gradeVars, startVars, rl_clock, rl_ticks,
                 rl_reqs, feedback_last_sent, rl_op, rl_key, rl_ip, rl_now>>

\* _check_rate_limit inside the lock, up to the two checks: the timestamp is
\* appended to the ip's ring, then the ring and the email's last-sent time
\* are tested.  A rejected call leaves the lock at once.
RateCheck(t) ==
  /\ rl_pc[t] = "rate_check"
  /\ LockFree
  /\ LET ring == ring_append(ip_request_log[rl_ip[t]], rl_now[t])
         last == email_last_sent[rl_key[t]]
     IN  /\ ip_request_log' = [ip_request_log EXCEPT ![rl_ip[t]] = ring]
         /\ rl_seen' = [rl_seen EXCEPT ![rl_ip[t]] = Append(@, rl_now[t])]
         /\ IF Len(ring) >= IP_MAX_RPS /\ rl_now[t] - ring[1] < IpWindow
              THEN Leave(t, "ip") /\ UNCHANGED rate_lock
              ELSE IF cooling(last, rl_now[t], EmailCooldown)
                THEN Leave(t, "email") /\ UNCHANGED rate_lock
                ELSE Pass(t, "rate_record")
  /\ UNCHANGED <<leaseVars, pureVars, gradeVars, startVars, rl_clock, rl_ticks,
                 rl_reqs, email_last_sent, feedback_last_sent, rl_op, rl_key,
                 rl_ip, rl_now>>

\* _check_rate_limit: _email_last_sent[email] = now, the lock is released and
\* None is returned.
RateRecord(t) ==
  /\ rl_pc[t] = "rate_record"
  /\ email_last_sent' = [email_last_sent EXCEPT ![rl_key[t]] = rl_now[t]]
  /\ rate_lock' = None
  /\ Leave(t, "ok")
  /\ UNCHANGED <<leaseVars, pureVars, gradeVars, startVars, rl_clock, rl_ticks,
                 rl_reqs, ip_request_log, feedback_last_sent, rl_op, rl_key,
                 rl_ip, rl_now, rl_seen>>

\* _check_feedback_rate_limit(key) is called: now is read before the lock.
FeedbackEnter(t) ==
  /\ rl_pc[t] = "idle"
  /\ rl_reqs < MaxCoolReqs
  /\ \E k \in Emails : rl_key' = [rl_key EXCEPT ![t] = k]
  /\ rl_ip' = [rl_ip EXCEPT ![t] = "none"]
  /\ rl_op' = [rl_op EXCEPT ![t] = "feedback"]
  /\ rl_now' = [rl_now EXCEPT ![t] = rl_clock]
  /\ rl_pc' = [rl_pc EXCEPT ![t] = "fb_check"]
  /\ rl_out' = [rl_out EXCEPT ![t] = "none"]
  /\ rl_reqs' = rl_reqs + 1
  /\ UNCHANGED <<leaseVars, pureVars, gradeVars, startVars, rl_clock, rl_ticks,
                 rate_lock, email_last_sent, ip_request_log, feedback_last_sent,
                 rl_seen, rl_allowed>>

\* _check_feedback_rate_limit inside the lock: the cooldown test.
FeedbackCheck(t) ==
  /\ rl_pc[t] = "fb_check"
  /\ LockFree
  /\ LET last == feedback_last_sent[rl_key[t]]
     IN  IF cooling(last, rl_now[t], FeedbackCooldown)
           THEN Leave(t, "cooldown") /\ UNCHANGED rate_lock
           ELSE Pass(t, "fb_record")
  /\ UNCHANGED <<leaseVars, pureVars, gradeVars, startVars, rl_clock, rl_ticks,
                 rl_reqs, email_last_sent, ip_request_log, feedback_last_sent,
                 rl_op, rl_key, rl_ip, rl_now, rl_seen>>

\* _check_feedback_rate_limit: _feedback_last_sent[key] = now, release, None.
FeedbackRecord(t) ==
  /\ rl_pc[t] = "fb_record"
  /\ feedback_last_sent' = [feedback_last_sent EXCEPT ![rl_key[t]] = rl_now[t]]
  /\ rate_lock' = None
  /\ Leave(t, "ok")
  /\ UNCHANGED <<leaseVars, pureVars, gradeVars, startVars, rl_clock, rl_ticks,
                 rl_reqs, email_last_sent, ip_request_log, rl_op, rl_key, rl_ip,
                 rl_now, rl_seen>>

\* The monotonic clock advances by d milliseconds.
RlAdvance(d) ==
  /\ rl_ticks < MaxRlTicks
  /\ rl_ticks' = rl_ticks + 1
  /\ rl_clock' = rl_clock + d
  /\ UNCHANGED <<leaseVars, pureVars, gradeVars, startVars, rl_reqs, rate_lock,
                 email_last_sent, ip_request_log, feedback_last_sent, rl_pc,
                 rl_op, rl_key, rl_ip, rl_now, rl_out, rl_seen, rl_allowed>>

WindowTick == \E d \in WindowSteps : RlAdvance(d)

CoolTick == \E d \in CoolSteps : RlAdvance(d)

\* A short time passes while calls are in flight.
RaceTick == RlAdvance(1)

\* Feedback is submitted in a sequential run.
CoolFeedback == FeedbackEnter(Main)

\* ----------------------------------------------------- send_magic_link
\* Clock advances between magic-link requests: two of them make up exactly
\* the email cooldown.
MagicSteps == {1, EmailCooldown - 1}

\* send_magic_link receives a request with a well-formed email (lines
\* 559-575) and calls _check_rate_limit(email, client_ip); the requests are
\* those of one student.
MagicBegin(t) ==
  /\ rl_pc[t] = "idle"
  /\ rl_reqs < MaxCoolReqs
  /\ rl_key' = [rl_key EXCEPT ![t] = "a@x"]
  /\ rl_ip' = [rl_ip EXCEPT ![t] = "10.0.0.1"]
  /\ rl_op' = [rl_op EXCEPT ![t] = "magic"]
  /\ rl_now' = [rl_now EXCEPT ![t] = rl_clock]
  /\ rl_pc' = [rl_pc EXCEPT ![t] = "rate_check"]
  /\ rl_out' = [rl_out EXCEPT ![t] = "none"]
  /\ rl_reqs' = rl_reqs + 1
  /\ UNCHANGED <<leaseVars, pureVars, gradeVars, startVars, rl_clock, rl_ticks,
                 rate_lock, email_last_sent, ip_request_log, feedback_last_sent,
                 rl_seen, rl_allowed>>

\* send_magic_link, lines 578-580: rate_error is set, 429 is returned.
MagicReject(t) ==
  /\ rl_pc[t] = "ml_429"
  /\ rl_pc' = [rl_pc EXCEPT ![t] = "idle"]
  /\ rl_out' = [rl_out EXCEPT ![t] = "429"]
  /\ UNCHANGED <<leaseVars, pureVars, gradeVars, startVars, rl_clock, rl_ticks,
                 rl_reqs, rate_lock, email_last_sent, ip_request_log,
                 feedback_last_sent, rl_op, rl_key, rl_ip, rl_now, rl_seen,
                 rl_allowed>>

\* Mutant of MagicLink: a failed link generation gives the cooldown back.
MagicLink_refunds_cooldown(t) ==
  /\ rl_pc[t] = "ml_link"
  /\ \E ok \in BOOLEAN :
       IF ok THEN /\ rl_pc' = [rl_pc EXCEPT ![t] = "ml_send"]
                  /\ UNCHANGED <<rl_out, email_last_sent>>
             ELSE /\ rl_pc' = [rl_pc EXCEPT ![t] = "idle"]
                  /\ rl_out' = [rl_out EXCEPT ![t] = "500"]
                  /\ email_last_sent' = [email_last_sent EXCEPT ![rl_key[t]] = None]
  /\ UNCHANGED <<leaseVars, pureVars, gradeVars, startVars, rl_clock, rl_ticks,
                 rl_reqs, rate_lock, ip_request_log,
                 feedback_last_sent, rl_op, rl_key, rl_ip, rl_now, rl_seen,
                 rl_allowed>>

\* send_magic_link, lines 583-590: generate_sign_in_with_email_link returns
\* the link or raises; the exception is caught at line 673 and answered 500.
MagicLink(t) ==
  /\ rl_pc[t] = "ml_link"
  /\ \E ok \in BOOLEAN :
       IF ok THEN /\ rl_pc' = [rl_pc EXCEPT ![t] = "ml_send"]
                  /\ UNCHANGED rl_out
             ELSE /\ rl_pc' = [rl_pc EXCEPT ![t] = "idle"]
                  /\ rl_out' = [rl_out EXCEPT ![t] = "500"]
  /\ UNCHANGED <<leaseVars, pureVars, gradeVars, startVars, rl_clock, rl_ticks,
                 rl_reqs, rate_lock, email_last_sent, ip_request_log,
                 feedback_last_sent, rl_op, rl_key, rl_ip, rl_now, rl_seen,
                 rl_allowed>>

\* send_magic_link, lines 594-671: the mail is built and sent (200); without
\* a Gmail service, or when the send raises, the answer is 500.
MagicSend(t) ==
  /\ rl_pc[t] = "ml_send"
  /\ rl_pc' = [rl_pc EXCEPT ![t] = "idle"]
  /\ \E ok \in BOOLEAN : rl_out' = [rl_out EXCEPT ![t] = IF ok THEN "200" ELSE "500"]
  /\ UNCHANGED <<leaseVars, pureVars, gradeVars, startVars, rl_clock, rl_ticks,
                 rl_reqs, rate_lock, email_last_sent, ip_request_log,
                 feedback_last_sent, rl_op, rl_key, rl_ip, rl_now, rl_seen,
                 rl_allowed>>

MagicTick == \E d \in MagicSteps : RlAdvance(d)

\* Magic-link requests served by concurrent threads of one process.
MagicNext ==
  \/ \E t \in Threads : MagicBegin(t)
  \/ \E t \in Threads : RateCheck(t)
  \/ \E t \in Threads : RateRecord(t)
  \/ \E t \in Threads : MagicReject(t)
  \/ \E t \in Threads : MagicLink(t)
  \/ \E t \in Threads : MagicSend(t)
  \/ MagicTick

\* Requests of the magic-link endpoint, in and around one window.
WindowNext ==
  \/ WindowSend
  \/ \E t \in Threads : RateCheck(t)
  \/ \E t \in Threads : RateRecord(t)
  \/ WindowTick

\* Requests of both endpoints, around their cooldowns.
CoolNext ==
  \/ CoolSend
  \/ \E t \in Threads : RateCheck(t)
  \/ \E t \in Threads : RateRecord(t)
  \/ CoolFeedback
  \/ \E t \in Threads : FeedbackCheck(t)
  \/ \E t \in Threads : FeedbackRecord(t)
  \/ CoolTick

\* Requests of both endpoints served by concurrent threads.
RaceNext ==
  \/ \E t \in Threads : RaceSend(t)
  \/ \E t \in Threads : RateCheck(t)
  \/ \E t \in Threads : RateRecord(t)
  \/ \E t \in Threads : FeedbackEnter(t)
  \/ \E t \in Threads : FeedbackCheck(t)
  \/ \E t \in Threads : FeedbackRecord(t)
  \/ RaceTick

\* --------------------------------------------------------- start_scenario
\* An instance serves start_scenario with its own lease cache and its own
\* store client.
Hosts == Workers \cap Procs

StartInit ==
  /\ ss_pc = [i \in Workers \cup Procs |-> "idle"]
  /\ ss_resp = [i \in Workers \cup Procs |-> "none"]

\* The store raises inside _try_claim_watch_renewal (unavailable, or the
\* transaction's retries are exhausted): ensure_watch has no handler around
\* the transaction, the exception leaves ensure_watch.
TxnError(w) ==
  /\ pc[w] \in {"txn_read", "txn_commit"}
  /\ pc' = [pc EXCEPT ![w] = "idle"]
  /\ snap' = [snap EXCEPT ![w] = NoDoc]
  /\ now' = [now EXCEPT ![w] = None]
  /\ result' = [result EXCEPT ![w] = "error"]
  /\ UNCHANGED <<nonLeaseVars, clock, ticks, calls, watch_doc, watch_expires_at,
                 watch_log, faults>>

\* start_scenario up to the call of ensure_watch: token, request body and
\* scenario are checked and the Gmail service is built; a request that fails
\* a check is answered 401/400/403/404 ("4xx"), one without Gmail service 500.
StartBegin(i) ==
  /\ ss_pc[i] = "idle" /\ pc[i] = "idle" /\ g_pc[i] = "idle"
  /\ \E outcome \in {"ok", "4xx", "500"} :
       IF outcome = "ok"
         THEN /\ ss_pc' = [ss_pc EXCEPT ![i] = "watch"]
              /\ ss_resp' = [ss_resp EXCEPT ![i] = "none"]
         ELSE /\ ss_resp' = [ss_resp EXCEPT ![i] = outcome]
              /\ UNCHANGED ss_pc
  /\ result' = [result EXCEPT ![i] = "none"]
  /\ g_op' = [g_op EXCEPT ![i] = "none"]
  /\ UNCHANGED <<pureVars, limitVars, clock, ticks, calls, watch_doc, watch_expires_at, pc,
                 now, snap, watch_log, faults, attempts, user_doc, g_pc, g_att,
                 g_snap, g_score, g_ret, ops, wins, grader_calls, feedback_sent,
                 traceVars>>

\* start_scenario line 413: ensure_watch(gmail_service).
StartEnsureWatch(i) ==
  /\ ss_pc[i] = "watch" /\ result[i] = "none"
  /\ Enter(i)

\* Mutant of StartAfterWatch: an error of ensure_watch is ignored.
StartAfterWatch_ignores_error(i) ==
  /\ ss_pc[i] = "watch" /\ pc[i] = "idle"
  /\ result[i] \notin {"none", "running"}
  /\ ss_pc' = [ss_pc EXCEPT ![i] = "mail"]
  /\ UNCHANGED <<leaseVars, pureVars, gradeVars, limitVars, ss_resp>>

\* ensure_watch is over: it returned, or its exception reaches the outer
\* except of start_scenario, which answers 500.
StartAfterWatch(i) ==
  /\ ss_pc[i] = "watch" /\ pc[i] = "idle"
  /\ result[i] \notin {"none", "running"}
  /\ IF result[i] = "error"
       THEN /\ ss_pc' = [ss_pc EXCEPT ![i] = "idle"]
            /\ ss_resp' = [ss_resp EXCEPT ![i] = "500"]
       ELSE /\ ss_pc' = [ss_pc EXCEPT ![i] = "mail"]
            /\ UNCHANGED ss_resp
  /\ UNCHANGED <<leaseVars, pureVars, gradeVars, limitVars>>

\* The starter email of a REPLY scenario is sent (an INITIATE scenario has
\* none).
StartMailOk(i) ==
  /\ ss_pc[i] = "mail"
  /\ ss_pc' = [ss_pc EXCEPT ![i] = "create"]
  /\ UNCHANGED <<leaseVars, pureVars, gradeVars, limitVars, ss_resp>>

\* Sending the starter email raises: outer except, 500.
StartMailFail(i) ==
  /\ ss_pc[i] = "mail"
  /\ ss_pc' = [ss_pc EXCEPT ![i] = "idle"]
  /\ ss_resp' = [ss_resp EXCEPT ![i] = "500"]
  /\ UNCHANGED <<leaseVars, pureVars, gradeVars, limitVars>>

\* start_scenario line 436: create_attempt, its first write.
StartCreate(i) ==
  /\ ss_pc[i] = "create" /\ g_op[i] = "none"
  /\ CreateAttemptDoc(i)

\* create_attempt has returned: 200 with the attempt id.
StartReturn(i) ==
  /\ ss_pc[i] = "create" /\ g_op[i] = "create" /\ g_pc[i] = "idle"
  /\ ss_pc' = [ss_pc EXCEPT ![i] = "idle"]
  /\ ss_resp' = [ss_resp EXCEPT ![i] = "200"]
  /\ UNCHANGED <<leaseVars, pureVars, gradeVars, limitVars>>

StartNext ==
  \/ \E i \in Hosts : StartBegin(i)
  \/ \E i \in Hosts : StartEnsureWatch(i)
  \/ \E w \in Workers : TxnRead(w)
  \/ \E w \in Workers : TxnCommit(w)
  \/ \E w \in Workers : TxnError(w)
  \/ \E w \in Workers : SkipRead(w)
  \/ \E w \in Workers : WatchOk(w)
  \/ \E w \in Workers : WatchFail(w)
  \/ \E w \in Workers : Confirm(w)
  \/ \E i \in Hosts : StartAfterWatch(i)
  \/ \E i \in Hosts : StartMailOk(i)
  \/ \E i \in Hosts : StartMailFail(i)
  \/ \E i \in Hosts : StartCreate(i)
  \/ \E g \in Procs : CreateAttemptUser(g)
  \/ \E i \in Hosts : StartReturn(i)

\* check_and_claim_watch is not being applied alone.
PureIdle ==
  /\ pure_data = NoDoc
  /\ pure_now = 0
  /\ pure_out = "unset"

Init == LeaseInit /\ PureIdle /\ GradeInit /\ StartInit /\ LimitInit
Next == LeaseNext
Spec == Init /\ [][Next]_vars

\* ------------------------------------------ check_and_claim_watch by itself
\* The decision function applied to records around its two time boundaries,
\* with fields missing, and with statuses the service never writes.
PureNows == {WATCH_DURATION, WATCH_DURATION + WATCH_CLAIM_TIMEOUT}
Around(t) == {t + k : k \in (0 - Spread)..Spread}

PureRecords(t) ==
  [exists : {TRUE},
   status : {"none", "renewing", "completed", "failed"},
   claimed_at : {None, 0, t} \cup Around(t - WATCH_CLAIM_TIMEOUT),
   expires_at : {None, 0, t + WATCH_DURATION} \cup Around(t + WATCH_RENEW_BUFFER),
   completed_at : {None}]

PureInit ==
  /\ LeaseInit
  /\ GradeInit
  /\ StartInit
  /\ LimitInit
  /\ pure_now \in PureNows
  /\ pure_data \in PureRecords(pure_now) \cup {NoDoc}
  /\ pure_out = "unset"

\* check_and_claim_watch(data, now) is called.
PureCall ==
  /\ pure_out = "unset"
  /\ pure_out' = IF check_and_claim_watch(pure_data, pure_now) THEN "True" ELSE "False"
  /\ UNCHANGED <<pure_data, pure_now, leaseVars, gradeVars, startVars, limitVars>>

SpecPure == PureInit /\ [][PureCall]_vars

\* Stored records with fields missing: the lease record lacks claimed_at or
\* expires_at (or does not exist), the attempt documents do not exist or
\* lack their status.
DefaultRecords(t) ==
  {r \in PureRecords(t) : r.claimed_at = None \/ r.expires_at = None} \cup {NoDoc}

NoStatus == [status |-> "none", score |-> None]

DefaultsInit ==
  /\ LeaseInit
  /\ StartInit
  /\ LimitInit
  /\ GradeIdle
  /\ user_doc = NoUser
  /\ \E d \in {NoAttempt, NoStatus} : attempts = [a \in AttemptIds |-> d]
  /\ pure_now \in PureNows
  /\ pure_data \in DefaultRecords(pure_now)
  /\ pure_out = "unset"

DefaultsNext ==
  \/ PureCall
  \/ \E g \in Procs : ClaimBegin(g)
  \/ \E g \in Procs : ClaimRead(g)
  \/ \E g \in Procs : ClaimCommit(g)

SpecDefaults == DefaultsInit /\ [][DefaultsNext]_vars

SpecClaim == Init /\ [][ClaimNext]_vars

SpecGrade == Init /\ [][GradeNext]_vars

SpecStart == Init /\ [][StartNext]_vars

SpecStuck == Init /\ [][StuckNext]_vars

SpecFlow == Init /\ [][FlowNext]_vars /\ FlowFairness

SpecEmail == Init /\ [][EmailNext]_vars

SpecMagic == Init /\ [][MagicNext]_vars

SpecWindow == Init /\ [][WindowNext]_vars

SpecCool == Init /\ [][CoolNext]_vars

SpecRace == Init /\ [][RaceNext]_vars

\* ------------------------------------------------- concurrent first calls
\* Calls that all start while the lease record does not exist yet (each on a
\* process with an empty cache), with time passing while they run.
StartupEnter(w) == ~watch_doc.exists /\ Enter(w)

StartupNext ==
  \/ \E w \in Workers : StartupEnter(w)
  \/ \E w \in Workers : TxnRead(w)
  \/ \E w \in Workers : TxnCommit(w)
  \/ \E w \in Workers : SkipRead(w)
  \/ \E w \in Workers : WatchOk(w)
  \/ \E w \in Workers : WatchFail(w)
  \/ \E w \in Workers : Confirm(w)
  \/ Tick

SpecStartup == Init /\ [][StartupNext]_vars

\* ---------------------------------------------------- calls after a failure
\* ensure_watch is called again and again while renewals succeed or fail and
\* seconds pass; no instance dies.
RetryNext ==
  \/ \E w \in Workers : Enter(w)
  \/ \E w \in Workers : TxnRead(w)
  \/ \E w \in Workers : TxnCommit(w)
  \/ \E w \in Workers : SkipRead(w)
  \/ \E w \in Workers : WatchOk(w)
  \/ \E w \in Workers : WatchFail(w)
  \/ \E w \in Workers : Confirm(w)
  \/ Tick

SpecRetry == Init /\ [][RetryNext]_vars

\* ------------------------------------------------------- self-healing runs
\* ensure_watch keeps being called (no bound on the calls); at most MaxFaults
\* watch() failures and crashes of calls in flight happen; the clock advances while a stored
\* claim is still inside its timeout (in steps of the timeout), which is the
\* time a stuck claim needs.
LiveClaim ==
  /\ watch_doc.status = "renewing"
  /\ clock - watch_doc.claimed_at < WATCH_CLAIM_TIMEOUT

HealEnter(w) == EnsureWatchEntry(w) /\ UNCHANGED calls

HealFail(w) ==
  /\ faults < MaxFaults
  /\ faults' = faults + 1
  /\ WatchFailStep(w)

HealCrash(w) ==
  /\ InFlight(w)
  /\ faults < MaxFaults
  /\ faults' = faults + 1
  /\ CrashStep(w)

HealTick ==
  /\ LiveClaim
  /\ UNCHANGED ticks
  /\ Advance(WATCH_CLAIM_TIMEOUT)

HealNext ==
  \/ \E w \in Workers : HealEnter(w)
  \/ \E w \in Workers : TxnRead(w)
  \/ \E w \in Workers : TxnCommit(w)
  \/ \E w \in Workers : SkipRead(w)
  \/ \E w \in Workers : WatchOk(w)
  \/ \E w \in Workers : HealFail(w)
  \/ \E w \in Workers : Confirm(w)
  \/ \E w \in Workers : HealCrash(w)
  \/ HealTick


\* Every call that is running takes its next step, watch() answers, every
\* process keeps calling ensure_watch, and time passes.
HealFairness ==
  /\ \A w \in Workers : WF_vars(HealEnter(w))
  /\ \A w \in Workers : WF_vars(TxnRead(w))
  /\ \A w \in Workers : WF_vars(TxnCommit(w))
  /\ \A w \in Workers : WF_vars(SkipRead(w))
  /\ \A w \in Workers : WF_vars(WatchOk(w))
  /\ \A w \in Workers : WF_vars(Confirm(w))
  /\ WF_vars(HealTick)

SpecHeal == Init /\ [][HealNext]_vars /\ HealFairness

\* ------------------------------------------------- caches against the store
\* Calls keep coming (no bound on them), instances crash and cold-start, and
\* the days between invocations may end a little before the renewal buffer
\* of a lease begins, or exactly when it begins.
EarlyStep == LongStep - WATCH_CLAIM_TIMEOUT

EarlyIdle ==
  /\ ticks < MaxTicks
  /\ ticks' = ticks + 1
  /\ \A w \in Workers : ~InFlight(w)
  /\ Advance(EarlyStep)

CacheNext ==
  \/ \E w \in Workers : HealEnter(w)
  \/ \E w \in Workers : TxnRead(w)
  \/ \E w \in Workers : TxnCommit(w)
  \/ \E w \in Workers : SkipRead(w)
  \/ \E w \in Workers : WatchOk(w)
  \/ \E w \in Workers : WatchFail(w)
  \/ \E w \in Workers : Confirm(w)
  \/ \E w \in Workers : Crash(w)
  \/ Tick
  \/ Idle
  \/ EarlyIdle

SpecCache == Init /\ [][CacheNext]_vars

\* ------------------------------------------------------------ definitions
Winners == {w \in Workers : pc[w] \in {"watch", "confirm"}}
Young(w) == clock - now[w] < WATCH_CLAIM_TIMEOUT
AllReturned == calls > 0 /\ \A w \in Workers : ~InFlight(w)
Dist(a, b) == IF a >= b THEN a - b ELSE b - a

C5_ExpiresOnlyByConfirm ==
  [][watch_doc'.expires_at # watch_doc.expires_at =>
       \E w \in Workers :
         /\ pc[w] = "confirm"
         /\ result'[w] = "renewed"
         /\ watch_doc'.expires_at = now[w] + WATCH_DURATION]_vars

\* A claim transaction has run on a record that carries an expires_at.
C5_Witness ==
  /\ watch_doc.status = "renewing"
  /\ watch_doc.expires_at # None

\* ------------------------------------------------------------------ C6
FreshCompleted(data, t) ==
  /\ data.status = "completed"
  /\ data.expires_at # None
  /\ data.expires_at > t + WATCH_RENEW_BUFFER

RespectedClaim(data, t) ==
  /\ data.status = "renewing"
  /\ data.claimed_at # None
  /\ t - data.claimed_at < WATCH_CLAIM_TIMEOUT

\* C6: check_and_claim_watch returns False exactly for a 'completed' record
\* whose expires_at is more than 24 h ahead and for a 'renewing' record claimed
\* less than 60 s ago, and True for every other record.
C6_DecisionTable ==
  pure_out # "unset" =>
    (pure_out = "False" <=>
       (FreshCompleted(pure_data, pure_now) \/ RespectedClaim(pure_data, pure_now)))

\* A stale 'renewing' record whose preserved expires_at is far ahead: True.
C6_Witness ==
  /\ pure_out = "True"
  /\ pure_data.status = "renewing"
  /\ pure_data.claimed_at = pure_now - WATCH_CLAIM_TIMEOUT - 1
  /\ pure_data.expires_at = pure_now + WATCH_DURATION

\* ------------------------------------------------------------------ C7
\* C7: for a 'completed' record, one second past the buffer is fresh (False);
\* one second short of it, and the boundary itself, need renewal (True).
C7_BufferBoundary ==
  (pure_out # "unset" /\ pure_data.status = "completed") =>
    /\ pure_data.expires_at = pure_now + WATCH_RENEW_BUFFER + 1 => pure_out = "False"
    /\ pure_data.expires_at = pure_now + WATCH_RENEW_BUFFER - 1 => pure_out = "True"
    /\ pure_data.expires_at = pure_now + WATCH_RENEW_BUFFER => pure_out = "True"

\* The call on a 'completed' record that expires exactly at now + buffer.
C7_Witness ==
  /\ pure_out = "True"
  /\ pure_data.status = "completed"
  /\ pure_data.expires_at = pure_now + WATCH_RENEW_BUFFER

\* ------------------------------------------------------------------ C8
\* C8: for a 'renewing' record, a claim one second older than the timeout is
\* taken over (True); one second younger than the timeout is respected (False).
C8_TimeoutBoundary ==
  (pure_out # "unset" /\ pure_data.status = "renewing") =>
    /\ pure_data.claimed_at = pure_now - (WATCH_CLAIM_TIMEOUT + 1) => pure_out = "True"
    /\ pure_data.claimed_at = pure_now - (WATCH_CLAIM_TIMEOUT - 1) => pure_out = "False"

\* The call on a 'renewing' record claimed one second less than the timeout ago.
C8_Witness ==
  /\ pure_out = "False"
  /\ pure_data.status = "renewing"
  /\ pure_data.claimed_at = pure_now - (WATCH_CLAIM_TIMEOUT - 1)

\* ------------------------------------------------------------------ C9
Healed ==
  /\ watch_doc.status = "completed"
  /\ watch_doc.expires_at > clock + WATCH_RENEW_BUFFER

\* C9: a claim that is never confirmed heals itself.  A transaction of a
\* call whose `now` is at least the claim timeout after the stored claimed_at
\* wins a new claim, and, while ensure_watch keeps being called and watch()
\* eventually succeeds, a 'renewing' record leads to a 'completed' record
\* whose expires_at is more than 24 h ahead.
C9_SelfHeal ==
  /\ [][\A w \in Workers :
          ( /\ pc[w] = "txn_commit"
            /\ pc'[w] \notin {"txn_commit", "idle"}
            /\ watch_doc = snap[w]
            /\ watch_doc.status = "renewing"
            /\ now[w] - watch_doc.claimed_at >= WATCH_CLAIM_TIMEOUT )
          => ( /\ pc'[w] = "watch"
               /\ watch_doc'.status = "renewing"
               /\ watch_doc'.claimed_at = now[w] )]_vars
  /\ (watch_doc.status = "renewing") ~> Healed

\* A claimant has crashed, the timeout has passed, and a later call has taken
\* the stale claim over and completed the renewal.
C9_Witness ==
  /\ \E w \in Workers : result[w] = "crashed"
  /\ \E w \in Workers : result[w] = "renewed"
  /\ Healed
  /\ watch_doc.claimed_at >= WATCH_CLAIM_TIMEOUT

\* ------------------------------------------------------------------ C10
\* C10: when watch() raises in the worker that won the claim, ensure_watch
\* returns, the record is left exactly as it was (a record that holds this
\* worker's claim stays 'renewing' with its claimed_at and expires_at) and
\* the cache is unchanged.
C10_FailedRenewalWritesNothing ==
  [][\A w \in Workers :
       (pc[w] = "watch" /\ result'[w] = "failed") =>
         /\ pc'[w] = "idle"
         /\ watch_doc' = watch_doc
         /\ watch_expires_at' = watch_expires_at]_vars

\* A renewal has failed and the record still holds the claim.
C10_Witness ==
  \E w \in Workers :
    /\ result[w] = "failed"
    /\ pc[w] = "idle"
    /\ watch_doc.status = "renewing"


\* ------------------------------------------------------------ claim C2
\* A claim call returns at the step where g_ret[g] stops being "none".
ClaimReturns(g) == g_op[g] = "claim" /\ g_ret[g] = "none" /\ g_ret'[g] # "none"

\* C2: for an attempt, claim_attempt_for_grading returns True to exactly one
\* of the calls running on it while it is 'pending' and False to the others:
\* a call returns True exactly when the document is 'pending' at its commit,
\* and that commit makes it 'grading'; a call that finds any other status
\* ('grading', 'graded', or no document) returns False and writes nothing;
\* so no attempt has two True returns and a 'grading' attempt has exactly one.
C2_ExactlyOneClaim ==
  /\ [](\A a \in AttemptIds :
          /\ wins[a] <= 1
          /\ (attempts[a].status = "grading" => wins[a] = 1))
  /\ [][\A g \in Procs :
          ClaimReturns(g) =>
            /\ (g_ret'[g] = "True") = (attempts[g_att[g]].status = "pending")
            /\ (g_ret'[g] = "True") =>
                 attempts' = [attempts EXCEPT ![g_att[g]].status = "grading"]
            /\ (g_ret'[g] = "False") => attempts' = attempts]_vars

\* Two calls ran concurrently on one 'pending' attempt: one has returned
\* True, the other read 'pending' before that commit and is about to commit.
C2_Witness ==
  \E g, h \in Procs :
    /\ g # h
    /\ g_op[g] = "claim" /\ g_op[h] = "claim"
    /\ g_att[g] = g_att[h]
    /\ g_ret[g] = "True" /\ g_pc[g] = "idle"
    /\ g_pc[h] = "cl_commit" /\ g_snap[h] = "pending"
    /\ attempts[g_att[g]].status = "grading"
    /\ wins[g_att[g]] = 1

\* ------------------------------------------------------------ claim C3
\* C3: for any single attempt, however many notifications are handled, the
\* grader is called, the attempt is marked graded and the feedback reply is
\* sent by at most one handler: the grader is called at most once and at
\* most one feedback reply goes out per attempt.
C3_OneHandlerDoesTheWork ==
  \A a \in AttemptIds : grader_calls[a] <= 1 /\ feedback_sent[a] <= 1


\* ------------------------------------------------------------ claim C11
\* C11: a store error raised by the lease claim transaction does not fail
\* the invocation around it: a start_scenario whose ensure_watch met the
\* error is not answered 500; it goes on and creates the attempt.
C11_FailOpen ==
  \A i \in Hosts : result[i] = "error" => ss_resp[i] # "500"


\* ------------------------------------------------------------ claim C12
\* The cache of process w holds an expiry later than now + 24 h.
CachedFresh(w) ==
  /\ watch_expires_at[w] # None
  /\ watch_expires_at[w] > clock + WATCH_RENEW_BUFFER

\* C12: a call of ensure_watch on a process whose cached expiry is later than
\* now + 24 h returns at once: it opens no transaction and reads nothing, the
\* record, the renewal log and every cache are as before; and only such a
\* call returns at once.
C12_FastPathTouchesNothing ==
  [][calls' = calls + 1 =>
       /\ \A w \in Workers : (CachedFresh(w) /\ pc[w] = "idle") => pc'[w] = "idle"
       /\ pc' = pc =>
            /\ \E w \in Workers : CachedFresh(w) /\ pc[w] = "idle" /\ result'[w] = "fast"
            /\ UNCHANGED <<watch_doc, watch_expires_at, watch_log, snap, now>>]_vars

\* A call has returned by the fast path on a process with a fresh cache.
C12_Witness ==
  \E w \in Workers : result[w] = "fast" /\ pc[w] = "idle" /\ CachedFresh(w)


\* ------------------------------------------------------------ claim C13
\* C13: when the claim transaction of a worker commits a claim, that commit
\* makes the record 'renewing' with claimed_at = the worker's now and the
\* expires_at the record had before; when it decides not to claim (or has to
\* retry) it leaves the record as it was.
C13_ClaimWritesOnlyTheClaim ==
  [][\A w \in Workers :
       pc[w] = "txn_commit" =>
         /\ pc'[w] = "watch" =>
              /\ check_and_claim_watch(watch_doc, now[w])
              /\ watch_doc'.exists
              /\ watch_doc'.status = "renewing"
              /\ watch_doc'.claimed_at = now[w]
              /\ watch_doc'.expires_at = watch_doc.expires_at
         /\ pc'[w] = "skip" =>
              /\ ~check_and_claim_watch(watch_doc, now[w])
              /\ watch_doc' = watch_doc
         /\ pc'[w] = "txn_read" => watch_doc' = watch_doc]_vars

\* A worker has just claimed a record that held an expiry: the expiry is
\* still there, claimed_at is the worker's now.
C13_Witness ==
  \E w \in Workers :
    /\ pc[w] = "watch"
    /\ watch_doc.status = "renewing"
    /\ watch_doc.claimed_at = now[w]
    /\ now[w] > 0
    /\ watch_doc.expires_at # None


\* ------------------------------------------------------------ claim C14
\* C14: when the renewal call of a claim winner has succeeded, ensure_watch
\* writes status 'completed', expires_at = now + 7 days and completed_at = now
\* to the record and sets the cache of its process to that expires_at, so the
\* record then reads 'completed' with both times present.
C14_ConfirmWritesCompleted ==
  [][\A w \in Workers :
       (pc[w] = "confirm" /\ result'[w] = "renewed") =>
         /\ watch_doc'.exists
         /\ watch_doc'.status = "completed"
         /\ watch_doc'.expires_at = now[w] + WATCH_DURATION
         /\ watch_doc'.completed_at = now[w]
         /\ watch_doc'.expires_at # None /\ watch_doc'.completed_at # None
         /\ watch_expires_at'[w] = watch_doc'.expires_at]_vars

\* A call that started with an empty cache has renewed and confirmed.
C14_Witness ==
  \E w \in Workers :
    /\ result[w] = "renewed" /\ pc[w] = "idle"
    /\ watch_doc.status = "completed"
    /\ watch_doc.completed_at # None
    /\ watch_doc.expires_at = watch_doc.completed_at + WATCH_DURATION
    /\ watch_expires_at[w] = watch_doc.expires_at


\* ------------------------------------------------------------ claim C15
\* C15: when the claim transaction has decided not to claim, ensure_watch
\* returns without a renewal call and without a store write; the cache of
\* its process becomes the expires_at the record holds, and stays as it was
\* if the record holds none.
C15_SkipOnlyRefreshesCache ==
  [][\A w \in Workers :
       (pc[w] = "skip" /\ result'[w] = "skipped") =>
         /\ pc'[w] = "idle"
         /\ watch_doc' = watch_doc
         /\ watch_log' = watch_log
         /\ watch_expires_at'[w] =
              IF watch_doc.exists /\ watch_doc.expires_at # None
                THEN watch_doc.expires_at
                ELSE watch_expires_at[w]]_vars

\* A call has skipped and took the stored expiry into its cache, beside the
\* process whose call renewed.
C15_Witness ==
  \E w \in Workers :
    /\ result[w] = "skipped" /\ pc[w] = "idle"
    /\ watch_doc.expires_at # None
    /\ watch_expires_at[w] = watch_doc.expires_at
    /\ \E v \in Workers : v # w /\ result[v] = "renewed"


\* ------------------------------------------------------------ claim C16
\* The stored lease is 'completed' with more than 24 h left.
StoredFresh ==
  /\ watch_doc.status = "completed"
  /\ watch_doc.expires_at # None
  /\ watch_doc.expires_at > clock + WATCH_RENEW_BUFFER

\* The stored lease is unclaimed and within 24 h of its expiry (or has none).
StoredDue ==
  /\ watch_doc.status # "renewing"
  /\ (watch_doc.expires_at = None
        \/ watch_doc.expires_at <= clock + WATCH_RENEW_BUFFER)

\* No decision to renew is taken while the stored record is fresh
\* 'completed' or under a claim younger than the claim timeout.
CacheNeverCausesRenewal ==
  [][\A w \in Workers :
       (pc[w] = "txn_commit" /\ pc'[w] = "watch") =>
         /\ ~StoredFresh
         /\ ~LiveClaim]_vars

\* No call returns by the fast path while the stored lease is due.
CacheNeverHidesDueLease ==
  [][\A w \in Workers :
       (pc[w] = "idle" /\ result[w] # "fast" /\ result'[w] = "fast") =>
         ~StoredDue]_vars

\* C16: the cache of a process may be stale or emptied at any moment without
\* effect on correctness: a stale or empty cache never leads to a renewal
\* while the stored record is fresh 'completed' or under a live claim, and a
\* cached value never makes ensure_watch skip the renewal when the stored
\* lease is unclaimed and within 24 h of its expiry.
C16_CacheNeverDecides ==
  CacheNeverCausesRenewal /\ CacheNeverHidesDueLease


\* ------------------------------------------------------------ claim C17
\* C17: claim_attempt_for_grading on an attempt that does not exist or is
\* not 'pending' returns False and writes nothing: the attempt documents and
\* the user document are as before the call returned.
C17_FailedClaimWritesNothing ==
  [][\A g \in Procs :
       (ClaimReturns(g) /\ attempts[g_att[g]].status # "pending") =>
         /\ g_ret'[g] = "False"
         /\ attempts' = attempts
         /\ user_doc' = user_doc]_vars

\* A claim on an attempt that does not exist has returned False, and there
\* is still no such attempt.
C17_Witness ==
  \E g \in Procs :
    /\ g_op[g] = "claim" /\ g_pc[g] = "idle" /\ g_ret[g] = "False"
    /\ attempts[g_att[g]].status = "absent"


\* ------------------------------------------------------------ claim C18
\* C18: update_attempt_graded may be called again for an attempt with the
\* same result: each call that finds the attempt leaves it 'graded' with the
\* result it was given and goes on without raising, and a call that finds
\* the attempt already 'graded' with that very result changes nothing in it;
\* the attempt always shows the result written last.
C18_MarkIdempotent ==
  /\ [](\A a \in AttemptIds :
          marks[a] # <<>> =>
            /\ attempts[a].status = "graded"
            /\ attempts[a].score = marks[a][Len(marks[a])])
  /\ [][\A g \in Procs :
          (g_pc[g] = "ug_write" /\ g_pc'[g] # "ug_write"
             /\ attempts[g_att[g]].status # "absent") =>
            /\ attempts'[g_att[g]] = [status |-> "graded", score |-> g_score[g]]
            /\ g_pc'[g] = "ug_user" /\ g_ret'[g] # "raised"
            /\ attempts[g_att[g]] = [status |-> "graded", score |-> g_score[g]]
                 => attempts' = attempts]_vars
  /\ [][\A g \in Procs :
          (g_pc[g] \in {"ug_user", "ug_clear"} /\ g_pc'[g] # g_pc[g]) =>
            /\ g_ret'[g] # "raised"
            /\ attempts' = attempts]_vars

\* Two calls for one attempt with the same result have both returned
\* without raising; the attempt is 'graded' with that result.
C18_Witness ==
  \E a \in AttemptIds :
    /\ Len(marks[a]) >= 2
    /\ marks[a][1] = marks[a][2]
    /\ attempts[a] = [status |-> "graded", score |-> marks[a][1]]
    /\ \A g \in Procs : g_pc[g] = "idle" /\ g_ret[g] # "raised"
    /\ \E g, h \in Procs : g # h /\ g_op[g] = "update" /\ g_op[h] = "update"


\* ------------------------------------------------------------ claim C19
\* The order of an attempt's statuses.
Rank(st) ==
  CASE st = "absent" -> 0
    [] st = "pending" -> 1
    [] st = "grading" -> 2
    [] st = "graded" -> 3

\* C19: the status of an attempt only moves forward (pending, grading,
\* graded): no step takes a 'graded' attempt back to 'pending' or 'grading',
\* and a claim on a 'graded' attempt returns False.
C19_StatusOnlyForward ==
  /\ [][\A a \in AttemptIds :
          Rank(attempts'[a].status) >= Rank(attempts[a].status)]_vars
  /\ [][\A g \in Procs :
          (ClaimReturns(g) /\ attempts[g_att[g]].status = "graded") =>
            g_ret'[g] = "False" /\ attempts' = attempts]_vars

\* An attempt that nobody had claimed was graded; a claim on it has returned
\* False and the attempt is still 'graded'.
C19_Witness ==
  \E g \in Procs :
    /\ g_op[g] = "claim" /\ g_pc[g] = "idle" /\ g_ret[g] = "False"
    /\ attempts[g_att[g]].status = "graded"
    /\ wins[g_att[g]] = 0
    /\ marks[g_att[g]] # <<>>


\* ------------------------------------------------------------ claim C20
\* C20: a notification handled after the attempt its mail was written for
\* has been graded is filtered by the 'already graded' check: the handler
\* gets to that check with this attempt and returns from it; it sends no
\* mail to the student, calls no grader and writes nothing to the store.
C20_LateDuplicateFiltered ==
  /\ [][\A g \in Procs :
          (g_pc[g] = "psm_active" /\ g_pc'[g] # "psm_active"
             /\ g_msg[g] # None /\ attempts[g_msg[g]].status = "graded") =>
            /\ g_pc'[g] = "psm_check" /\ g_att'[g] = g_msg[g]
            /\ redirects_sent' = redirects_sent]_vars
  /\ [][\A g \in Procs :
          (g_pc[g] = "psm_check" /\ g_pc'[g] # "psm_check"
             /\ attempts[g_att[g]].status = "graded") =>
            /\ g_pc'[g] = "idle"
            /\ UNCHANGED <<attempts, user_doc, grader_calls, feedback_sent,
                           redirects_sent, marks>>]_vars


ReplyReached(a) ==
  /\ attempts[a].status = "pending"
  /\ user_doc.exists /\ user_doc.activeAttemptId = a
  /\ \E g \in Procs : g_op[g] = "message" /\ g_pc[g] = "psm_active" /\ g_msg[g] = a

FlowGraded(a) == attempts[a].status = "graded" /\ attempts[a].score \in Scores

\* C22, as stated: once the reply to a pending attempt has reached the bot,
\* the attempt eventually is 'graded' with a score.
C22_ReplyGetsGraded ==
  \A a \in AttemptIds : ReplyReached(a) ~> FlowGraded(a)

\* What the flow does guarantee: the attempt is graded if it is still the
\* user's active attempt when the handler looks the active attempt up.
ReplyGradedWhileActive ==
  \A a \in AttemptIds :
    ReplyReached(a) ~>
      (FlowGraded(a) \/ ~(user_doc.exists /\ user_doc.activeAttemptId = a))

\* The handler of the reply to an attempt has graded that attempt and sent
\* the feedback.
GradedByReplyHandler ==
  \E g \in Procs : \E a \in AttemptIds :
    /\ g_op[g] = "message" /\ g_msg[g] = a /\ g_att[g] = a
    /\ FlowGraded(a) /\ feedback_sent[a] >= 1


\* ------------------------------------------------------------ claim C23
\* Thread t's call leaves the checks of _check_rate_limit in this step.
SendChecked(t) == rl_pc[t] = "rate_check" /\ rl_pc'[t] # "rate_check"

\* Thread t's call leaves the check of _check_feedback_rate_limit in this step.
FeedbackChecked(t) == rl_pc[t] = "fb_check" /\ rl_pc'[t] # "fb_check"

\* An allowed call of operation op for key k has a `now` less than cooldown
\* before n.
AllowedWithin(op, k, n, cooldown) ==
  \E r \in rl_allowed : r[1] = op /\ r[2] = k /\ n - r[3] < cooldown

\* C23: the cooldown check rejects a call iff an earlier allowed call for the
\* same key happened less than the cooldown (60 s per email, 5 s per feedback
\* key) before it; otherwise the call goes on, records its now for the key
\* and is allowed.
C23_CooldownDecision ==
  [][\A t \in Threads :
       /\ (SendChecked(t) /\ rl_out'[t] # "ip") =>
            /\ rl_out'[t] = "email" <=>
                 AllowedWithin("send", rl_key[t], rl_now[t], EmailCooldown)
            /\ rl_out'[t] # "email" => rl_pc'[t] = "rate_record"
       /\ FeedbackChecked(t) =>
            /\ rl_out'[t] = "cooldown" <=>
                 AllowedWithin("feedback", rl_key[t], rl_now[t], FeedbackCooldown)
            /\ rl_out'[t] # "cooldown" => rl_pc'[t] = "fb_record"
       /\ (rl_pc[t] = "rate_record" /\ rl_pc'[t] # "rate_record") =>
            rl_out'[t] = "ok" /\ email_last_sent'[rl_key[t]] = rl_now[t]
       /\ (rl_pc[t] = "fb_record" /\ rl_pc'[t] # "fb_record") =>
            rl_out'[t] = "ok" /\ feedback_last_sent'[rl_key[t]] = rl_now[t]]_vars

\* Three calls for one email were made: the first was allowed, the second,
\* made at once, was not, and the third, 61 s after the first, was allowed.
C23_Witness ==
  \E e \in Emails : \E t \in Threads :
    /\ rl_reqs = MaxCoolReqs /\ rl_pc[t] = "idle" /\ rl_out[t] = "ok"
    /\ rl_ticks = 1
    /\ rl_allowed = {<<"send", e, RlStart, t>>,
                     <<"send", e, RlStart + EmailCooldown + TicksPerSec, t>>}


\* ------------------------------------------------------------ claim C24
\* The calls for ip i that took the lock before, with a `now` less than one
\* window before n.
InWindow(i, n) ==
  Cardinality({j \in 1..Len(rl_seen[i]) : n - rl_seen[i][j] < IpWindow})

\* C24, as stated: a request is let through by the per-IP limit when fewer
\* than 5 requests of the ip lie in the window before it (so 5 requests in
\* rapid succession all pass, and so does one made after the window has
\* elapsed), and is rejected when 5 or more do (an immediate 6th).
C24_FivePerWindow ==
  [][\A t \in Threads :
       SendChecked(t) =>
         (rl_out'[t] = "ip" <=> InWindow(rl_ip[t], rl_now[t]) >= IP_MAX_RPS)]_vars

\* ------------------------------------------------------------ claim C25
\* C25, as stated: the sliding-window check rejects a request iff the ip's
\* buffer is already full and its oldest entry is still within the window,
\* and a rejected request leaves the buffer unchanged.
C25_RejectedNotRecorded ==
  [][\A t \in Threads :
       SendChecked(t) =>
         LET ring == ip_request_log[rl_ip[t]]
         IN  /\ rl_out'[t] = "ip" <=>
                  (Len(ring) >= IP_MAX_RPS /\ rl_now[t] - ring[1] < IpWindow)
             /\ rl_out'[t] = "ip" => ip_request_log' = ip_request_log]_vars

\* ------------------------------------------------------------ claim C26
\* C26: every per-IP buffer holds at most 5 timestamps.
C26_RingBounded ==
  \A i \in Ips : Len(ip_request_log[i]) <= IP_MAX_RPS

\* More than 5 calls were made from one ip: its buffer holds the last 5.
C26_Witness ==
  \E i \in Ips :
    /\ Len(rl_seen[i]) > IP_MAX_RPS
    /\ Len(ip_request_log[i]) = IP_MAX_RPS
    /\ \A j \in 1..IP_MAX_RPS :
         ip_request_log[i][j] = rl_seen[i][Len(rl_seen[i]) - IP_MAX_RPS + j]

\* ------------------------------------------------------------ claim C29
\* The latest allowed _check_rate_limit call for email e was at least one
\* cooldown before n (or there is none).
CooledDown(e, n) ==
  \A r \in rl_allowed : (r[1] = "send" /\ r[2] = e) => n - r[3] >= EmailCooldown

CooldownOf(op) == IF op = "send" THEN EmailCooldown ELSE FeedbackCooldown

Apart(m, n) == IF m >= n THEN m - n ELSE n - m

\* C27: the check-and-record sequence of a rate-limit call excludes every
\* other call: at most one thread is between its check and its record, two
\* allowed calls for one cooldown key are at least one cooldown apart (of
\* concurrent calls for a key with no prior entry just one passes), and a
\* call is rejected by the cooldown only when one has passed.
C27_OnePassPerKey ==
  /\ Cardinality({t \in Threads : rl_pc[t] \in {"rate_record", "fb_record"}}) <= 1
  /\ \A r, q \in rl_allowed :
       (r # q /\ r[1] = q[1] /\ r[2] = q[2]) => Apart(r[3], q[3]) >= CooldownOf(r[1])
  /\ \A t \in Threads :
       (rl_pc[t] = "idle" /\ rl_out[t] \in {"email", "cooldown"}) =>
         \E r \in rl_allowed : r[1] = rl_op[t] /\ r[2] = rl_key[t]

\* Two threads called with the same key, which had no entry; the one that
\* had entered first was still waiting for the lock when the other passed,
\* and was rejected.
C27_Witness ==
  \E t, u \in Threads :
    /\ t # u /\ rl_reqs = 2
    /\ rl_pc[t] = "idle" /\ rl_out[t] = "ok"
    /\ rl_pc[u] = "idle" /\ rl_out[u] \in {"email", "cooldown"}
    /\ rl_op[t] = rl_op[u] /\ rl_key[t] = rl_key[u]
    /\ rl_now[u] < rl_now[t]
    /\ rl_allowed = {<<rl_op[t], rl_key[t], rl_now[t], t>>}


\* ------------------------------------------------------------ claim C30
\* C30: an attempt document or the active pointer is written only by a
\* start_scenario that has passed its checks, whose ensure_watch has ended
\* without error and whose starter email is sent; a request answered with an
\* error status has called no create_attempt, and the answering step writes
\* nothing.
C30_CreateComesLast ==
  /\ [](\A i \in Hosts : ss_resp[i] \in {"4xx", "500"} => g_op[i] = "none")
  /\ [][/\ (attempts' # attempts \/ user_doc' # user_doc) =>
            \E i \in Hosts :
              /\ ss_pc[i] = "create" /\ g_pc'[i] # g_pc[i]
              /\ pc[i] = "idle" /\ result[i] \notin {"none", "running", "error"}
        /\ \A i \in Hosts :
             (/\ ss_resp'[i] \in {"4xx", "500"}
              /\ (ss_resp'[i] # ss_resp[i] \/ ss_pc'[i] # ss_pc[i])) =>
               attempts' = attempts /\ user_doc' = user_doc]_vars

\* One request failed in ensure_watch and was answered 500 without a write;
\* another went through every step and created the only attempt there is.
C30_Witness ==
  \E i, j \in Hosts :
    /\ ss_resp[i] = "500" /\ result[i] = "error" /\ g_op[i] = "none"
    /\ ss_resp[j] = "200" /\ g_op[j] = "create" /\ g_pc[j] = "idle"
    /\ attempts[g_att[j]].status = "pending"
    /\ user_doc.exists /\ user_doc.activeAttemptId = g_att[j]
    /\ \A a \in AttemptIds : a # g_att[j] => attempts[a].status = "absent"


\* ------------------------------------------------------------ claim C28
\* C28: on an empty lease record, on a 'completed' one without expires_at and
\* on a 'renewing' one without claimed_at, check_and_claim_watch returns True;
\* on an attempt that does not exist or has no status,
\* claim_attempt_for_grading returns False and leaves it as it is.
C28_SafeDefaults ==
  /\ (/\ pure_out # "unset"
      /\ \/ pure_data = NoDoc
         \/ pure_data.status = "completed" /\ pure_data.expires_at = None
         \/ pure_data.status = "renewing" /\ pure_data.claimed_at = None)
       => pure_out = "True"
  /\ \A g \in Procs :
       (g_op[g] = "claim" /\ g_pc[g] = "idle") =>
         /\ g_ret[g] = "False"
         /\ attempts[g_att[g]] \in {NoAttempt, NoStatus}
  /\ \A a \in AttemptIds : wins[a] = 0

\* The decision was taken on a record with a field missing and came out True,
\* and a claim on an attempt without status returned False.
C28_Witness ==
  /\ pure_out = "True" /\ pure_data # NoDoc
  /\ pure_data.status \in {"completed", "renewing"}
  /\ \E g \in Procs :
       /\ g_op[g] = "claim" /\ g_pc[g] = "idle" /\ g_ret[g] = "False"
       /\ attempts[g_att[g]] = NoStatus


\* ------------------------------------------------------------ claim C31
\* C31, as stated: the step of update_attempt_graded that clears the active
\* pointer changes the user document only if the pointer names the attempt
\* being graded; the pointer of a newer attempt is never cleared.
C31_ClearsOnlyOwnPointer ==
  [][\A g \in Procs :
       (/\ g_pc[g] = "ug_clear" /\ g_pc'[g] # "ug_clear"
        /\ ~(user_doc.exists /\ user_doc.activeAttemptId = g_att[g])) =>
         user_doc' = user_doc]_vars


\* ------------------------------------------------------------ claim C32
\* C32, as stated: the stored expires_at never moves to an earlier value;
\* every write that replaces it writes a value greater than or equal to the
\* one it overwrites.
C32_ExpiryNeverMovesBack ==
  [][(watch_doc.expires_at # None /\ watch_doc'.expires_at # watch_doc.expires_at) =>
       (watch_doc'.expires_at # None /\ watch_doc'.expires_at >= watch_doc.expires_at)]_vars


\* ------------------------------------------------------------ claim C33
\* The record holds the claim of a worker whose watch() call has failed: it
\* is 'renewing', watch() was requested under its claimed_at, and no worker
\* is on its way to confirm it.
FailedClaimStored ==
  /\ watch_doc.exists /\ watch_doc.status = "renewing"
  /\ watch_doc.claimed_at \in watch_log
  /\ \A u \in Workers : pc[u] \in {"watch", "confirm"} => now[u] # watch_doc.claimed_at

\* Less than 60 s have passed since the failed claim's claimed_at.
InBackoff == FailedClaimStored /\ clock < watch_doc.claimed_at + WATCH_CLAIM_TIMEOUT

\* The transaction of worker w ends in this step with a decision.
Decides(w) == pc[w] = "txn_commit" /\ pc'[w] \notin {"txn_commit", "txn_read"}

\* Worker w invokes watch() in this step.
InvokesWatch(w) == pc[w] = "watch" /\ pc'[w] # "watch"

\* C33, as stated: while less than 60 s have passed since a failed claim's
\* claimed_at, no worker invokes watch() and every call's transaction skips.
C33_NoRenewalInBackoff ==
  [][InBackoff =>
       \A w \in Workers :
         /\ ~InvokesWatch(w)
         /\ Decides(w) => pc'[w] = "skip"]_vars

\* C33, amended: in that interval every call's transaction skips, so no call
\* claims; watch() is invoked only by a worker that claimed at least 60 s
\* before the failed claim and has not reached its renewal call yet.
C33_NoClaimInBackoff ==
  [][InBackoff =>
       \A w \in Workers :
         /\ InvokesWatch(w) => now[w] + WATCH_CLAIM_TIMEOUT <= watch_doc.claimed_at
         /\ Decides(w) => pc'[w] = "skip"]_vars

\* A process's renewal failed, and its next invocation, less than 60 s after
\* the claim, skipped.
C33_Witness ==
  \E w \in Workers :
    /\ InBackoff
    /\ calls >= 2 /\ pc[w] = "idle" /\ result[w] = "skipped"
    /\ \A u \in Workers : u # w => result[u] = "none"

\* ---------------------------------------------------------------------
\* C34: a process's lease cache, when it is not empty, holds an expires_at
\* that a confirmed successful renewal stored in the lease record.  The
\* cache is written in two places only: by the confirm step, with the very
\* value that step stores, and by the read after a lost claim, with the
\* value the record holds at that moment; the stored value itself is written
\* only by a confirm step.  Every cached value is therefore the entry time
\* of a call that invoked watch(), plus the watch duration.
CacheFromConfirm(w) ==
  /\ pc[w] = "confirm" /\ pc'[w] = "idle"
  /\ watch_doc'.status = "completed"
  /\ watch_doc'.expires_at = watch_expires_at'[w]
  /\ watch_expires_at'[w] = now[w] + WATCH_DURATION

CacheFromRecord(w) ==
  /\ pc[w] = "skip" /\ pc'[w] = "idle"
  /\ watch_doc.exists /\ watch_doc' = watch_doc
  /\ watch_doc.expires_at = watch_expires_at'[w]

StoredByConfirm ==
  watch_doc'.expires_at # watch_doc.expires_at =>
    \E u \in Workers :
      /\ pc[u] = "confirm" /\ pc'[u] = "idle"
      /\ watch_doc'.status = "completed"
      /\ watch_doc'.expires_at = now[u] + WATCH_DURATION

C34_CacheHoldsConfirmedExpiry ==
  /\ [](\A w \in Workers :
          watch_expires_at[w] # None =>
            \E n \in watch_log : watch_expires_at[w] = n + WATCH_DURATION)
  /\ [][/\ StoredByConfirm
        /\ \A w \in Workers :
             (watch_expires_at'[w] # watch_expires_at[w] /\ watch_expires_at'[w] # None) =>
               (CacheFromConfirm(w) \/ CacheFromRecord(w))]_vars

\* Two processes hold the same cached expiry: one confirmed the renewal, the
\* other took the value from the record after its own claim was refused.
C34_Witness ==
  \E w, u \in Workers :
    /\ w # u
    /\ result[w] = "renewed" /\ result[u] = "skipped"
    /\ watch_expires_at[w] # None
    /\ watch_expires_at[u] = watch_expires_at[w]
    /\ watch_doc.expires_at = watch_expires_at[w]

\* ---------------------------------------------------------------------
\* C35: a completed lease record has expires_at = completed_at + 7 days, and
\* the completed_at a worker writes is the claimed_at that worker wrote when
\* it claimed: both are the time the worker captured on entering
\* ensure_watch, which it keeps unchanged until it returns, whatever the
\* clock shows when the transaction commits or the renewal finishes.
EntryTimeKept(w) ==
  /\ (pc[w] = "idle" /\ pc'[w] = "txn_read") => now'[w] = clock
  /\ (pc[w] # "idle" /\ pc'[w] # "idle") => now'[w] = now[w]

ClaimStampsEntryTime(w) ==
  (pc[w] = "txn_commit" /\ pc'[w] = "watch") =>
    (watch_doc'.status = "renewing" /\ watch_doc'.claimed_at = now[w])

ConfirmStampsEntryTime(w) ==
  (pc[w] = "confirm" /\ pc'[w] = "idle" /\ watch_doc' # watch_doc) =>
    /\ watch_doc'.status = "completed"
    /\ watch_doc'.completed_at = now[w]
    /\ watch_doc'.expires_at = now[w] + WATCH_DURATION

C35_CompletedFromEntryTime ==
  /\ []((watch_doc.exists /\ watch_doc.status = "completed") =>
          /\ watch_doc.completed_at # None
          /\ watch_doc.expires_at = watch_doc.completed_at + WATCH_DURATION)
  /\ [][\A w \in Workers :
          EntryTimeKept(w) /\ ClaimStampsEntryTime(w) /\ ConfirmStampsEntryTime(w)]_vars

\* A renewal confirmed by the worker that claimed it, seen after the clock
\* has moved on from the time of entry.
C35_Witness ==
  \E w \in Workers :
    /\ pc[w] = "idle" /\ result[w] = "renewed"
    /\ watch_doc.exists /\ watch_doc.status = "completed"
    /\ watch_doc.claimed_at = watch_doc.completed_at
    /\ watch_doc.expires_at = watch_doc.completed_at + WATCH_DURATION
    /\ watch_expires_at[w] = watch_doc.expires_at
    /\ clock > watch_doc.completed_at
    /\ clock < watch_doc.completed_at + WATCH_CLAIM_TIMEOUT

\* ---------------------------------------------------------------------
\* C36: a failure of the history fetch, the message fetch, the grader, a
\* store read or update, or the reply never leaves process_email: the call
\* returns "OK" and the failing step changes no attempt, no user document
\* and sends nothing, so the attempt keeps the status it had.  Every call
\* that got past the decoding of the notification ends with "OK".
ReportedSites == FailSites \ {"pe_decode"}

FailsAt(g) == g_op[g] = "email" /\ g_pc[g] \in FailSites /\ g_pc'[g] = "idle"

Ends(g) == g_op[g] = "email" /\ g_pc[g] # "idle" /\ g_pc'[g] = "idle"

C36_FailuresReturnOK ==
  [][\A g \in Procs :
       /\ (FailsAt(g) /\ g_pc[g] \in ReportedSites) =>
            /\ g_ret'[g] = "OK"
            /\ attempts' = attempts /\ user_doc' = user_doc
            /\ feedback_sent' = feedback_sent /\ redirects_sent' = redirects_sent
       /\ (Ends(g) /\ g_pc[g] # "pe_decode") => g_ret'[g] = "OK"]_vars

\* The grader failed on the active attempt: process_email has returned "OK",
\* the attempt is still pending and active, and no feedback went out.
C36_Witness ==
  \E g \in Procs : \E a \in AttemptIds :
    /\ g_op[g] = "email" /\ g_pc[g] = "idle" /\ g_ret[g] = "OK"
    /\ g_att[g] = a /\ grader_calls[a] = 1
    /\ attempts[a].status = "pending"
    /\ user_doc.exists /\ user_doc.activeAttemptId = a
    /\ feedback_sent[a] = 0

\* ---------------------------------------------------------------------
\* C37: a magic-link request that passes _check_rate_limit has the email's
\* cooldown stored before its link is generated or its mail sent.  When the
\* request then fails with 500, a request for the same email that comes
\* less than 60 s after it is answered 429; and a request answered 429 got
\* there straight from the rejected check, past no link and no mail.
Answered(t) == rl_op[t] = "magic" /\ rl_pc[t] = "idle" /\ rl_out[t] \in {"200", "429", "500"}

RetryOf(u, t) ==
  /\ u # t /\ Answered(u) /\ rl_key[u] = rl_key[t]
  /\ rl_now[u] >= rl_now[t]
  /\ rl_now[u] - rl_now[t] < EmailCooldown

MovesTo(t, at) == rl_pc'[t] = at /\ rl_pc[t] # at

C37_CooldownSpentOnFailure ==
  /\ [](\A t \in Threads :
          /\ rl_pc[t] \in {"ml_link", "ml_send"} =>
                (Truthy(email_last_sent[rl_key[t]]) /\ email_last_sent[rl_key[t]] >= rl_now[t])
          /\ (Answered(t) /\ rl_out[t] = "500") =>
                \A u \in Threads : RetryOf(u, t) => rl_out[u] = "429")
  /\ [][\A t \in Threads :
          /\ MovesTo(t, "ml_link") =>
                (rl_pc[t] = "rate_record" /\ email_last_sent'[rl_key[t]] = rl_now[t])
          /\ MovesTo(t, "ml_send") => rl_pc[t] = "ml_link"
          /\ MovesTo(t, "ml_429") => (rl_pc[t] = "rate_check" /\ email_last_sent' = email_last_sent)
          /\ (rl_out'[t] = "429" /\ rl_out[t] # "429") => rl_pc[t] = "ml_429"]_vars

\* One request failed with 500, another for the same email, 59.999 s later,
\* was answered 429.
C37_Witness ==
  \E t, u \in Threads :
    /\ Answered(t) /\ rl_out[t] = "500"
    /\ RetryOf(u, t) /\ rl_out[u] = "429"
    /\ rl_now[u] - rl_now[t] = EmailCooldown - 1

\* ---------------------------------------------------------------------
\* C38: the timestamps recorded for a key are non-decreasing in the order in
\* which the calls took the lock: the entries of an ip's buffer never
\* decrease, so its first entry is its oldest, and the last-sent time stored
\* for a key never moves backward.
NonDecreasing(seq) == \A j \in 1..(Len(seq) - 1) : seq[j] <= seq[j + 1]

OldestFirst(ring) == \A j \in 1..Len(ring) : ring[1] <= ring[j]

\* The time stored for a key is only ever replaced by a later one.
LastSentNeverMovesBack ==
  [][\A k \in Emails :
       /\ Truthy(email_last_sent[k]) => email_last_sent'[k] >= email_last_sent[k]
       /\ Truthy(feedback_last_sent[k]) =>
            feedback_last_sent'[k] >= feedback_last_sent[k]]_vars

C38_RecordedInLockOrder ==
  /\ [](\A i \in Ips :
          /\ NonDecreasing(rl_seen[i])
          /\ NonDecreasing(ip_request_log[i])
          /\ OldestFirst(ip_request_log[i]))
  /\ LastSentNeverMovesBack

\* A call that read the clock earlier took the lock later: the time stored
\* for its key stayed the later one.
LateCallerRejected ==
  \E t, u \in Threads :
    /\ t # u /\ rl_op[t] = rl_op[u] /\ rl_key[t] = rl_key[u]
    /\ rl_pc[t] = "idle" /\ rl_out[t] = "ok"
    /\ rl_pc[u] = "idle" /\ rl_out[u] \in {"email", "cooldown"}
    /\ rl_now[u] < rl_now[t]
    /\ (rl_op[t] = "send" => email_last_sent[rl_key[t]] = rl_now[t])
    /\ (rl_op[t] = "feedback" => feedback_last_sent[rl_key[t]] = rl_now[t])

====
